---------------------------- MODULE Spec2Model ----------------------------
(***************************************************************************)
(* gbasm-rs: the lexical front end of the GameBoy assembler.               *)
(*                                                                         *)
(*   SourceString (byte cursor)  ->  BaseLexer (raw tokens)                *)
(*     ->  Lexer (classified tokens, expression runs)                      *)
(*     ->  Expression::new (shunting yard)                                 *)
(*                                                                         *)
(* Bytes are their u8 values (b'a' = 97).  A token is a record             *)
(* [type, val]; an expression node is a record with a `kind' field.        *)
(* The program is deterministic: all nondeterminism is the choice of the   *)
(* source text in Init and of the build profile at the first overflow.     *)
(***************************************************************************)
EXTENDS Integers, Sequences, FiniteSets, TLC

VARIABLES
    source,                 \* the source text, a sequence of bytes
    cursor,                 \* SourceString: [bytes, last, empty]
    peeked,                 \* Peekable<BaseLexer>: the token read ahead, or NoToken
    in_macro_args,          \* Lexer.in_macro_args
    in_macro_body,          \* Lexer.in_macro_body
    paren_depth,            \* Lexer.paren_depth : u8
    last_token_type,        \* Lexer.last_token_type
    pc,                     \* where Lexer::next stands
    token_type,             \* Lexer::next local token_type
    expression_stack,       \* Lexer::next local expression_stack
    builder,                \* Expression::new locals: [i, values, operators, valid_unary_position, is_callable]
    emitted,                \* the tokens Lexer::next has returned so far
    idle_reads,             \* reads returned since the cursor last moved
    cursor_call,            \* the last SourceIter call made on the cursor from outside
                            \* the lexer, [op, byte], or NoCall
    cli,                    \* the command line program around the lexer: its position in
                            \* main, the files it was given, its exit code, or NoCli
    overflow_checks,        \* build profile: "debug" (arithmetic overflow panics), "release"
                            \* (it wraps), or "any" while no overflow has told them apart
    panic                   \* "" or the message of the panic that ended the program

vars == <<source, cursor, peeked, in_macro_args, in_macro_body, paren_depth,
          last_token_type, pc, token_type, expression_stack, builder, emitted,
          idle_reads, cursor_call, cli, overflow_checks, panic>>

---------------------------------------------------------------------------
(* Tokens (token.rs)                                                       *)

\* the payload of an Error is the sequence of the parts of its message: the
\* literal text and the values formatted into it
Tok(type, val) == [type |-> type, val |-> val]

NoVal == <<>>

NoToken == Tok("None", NoVal)

\* enum TokenType
TokenTypes == {
    "Newline", "Whitespace", "Comment", "String", "Directive", "Instruction",
    "Expression", "Name", "Number", "Operator", "GlobalLabelDef", "LocalLabelDef",
    "LocalLabelRef", "Offset", "Error", "Macro", "MacroArg", "MacroDef", "MacroEnd",
    "NegativeOffset", "PositiveOffset", "LParen", "RParen", "LBrace", "RBrace",
    "Comma", "Begin", "Eof"
}

\* Token::to_type: the payload is dropped
to_type(token) == token.type

\* f32 as used by the lexer: sign * (whole + frac / 10^prec)
Num(sign, whole, frac, prec) == [sign |-> sign, whole |-> whole, frac |-> frac, prec |-> prec]

\* `val as i32' of a Number payload: truncation toward zero
as_i32(num) == num.sign * num.whole

---------------------------------------------------------------------------
(* SourceString (source_string.rs)                                         *)

\* SourceString::new, before BaseLexer::new has primed it
SourceString_new == [bytes |-> 0, last |-> 0, empty |-> FALSE]

\* SourceIter::get
source_get(c) == c.last

\* SourceIter::next: read the next byte into `last'; at the end of input
\* set `empty' and make `last' 0
source_next(src, c) ==
    IF c.bytes < Len(src)
    THEN [bytes |-> c.bytes + 1, last |-> src[c.bytes + 1], empty |-> c.empty]
    ELSE [bytes |-> c.bytes, last |-> 0, empty |-> TRUE]

\* SourceIter::peek: the byte after `last'; at the end of input it sets
\* `empty' (and leaves `last' alone) and yields 0
source_peek(src, c) ==
    IF c.bytes < Len(src)
    THEN [byte |-> src[c.bytes + 1], cur |-> c]
    ELSE [byte |-> 0, cur |-> [c EXCEPT !.empty = TRUE]]

\* SourceIter::is_empty
source_is_empty(c) == c.empty

\* no call has been made on the cursor from outside the lexer
NoCall == [op |-> "none", byte |-> 0]

\* no command line program: the lexer is run on its own
NoCli == [pc |-> "none", files |-> <<>>, i |-> 0, exit_code |-> -1, stderr |-> 0,
          unopened |-> 0, errors |-> 0]

---------------------------------------------------------------------------
(* Matchers (lexer.rs)                                                     *)

is_decimal(c) == c \in 48..57

is_binary(c) == c \in {48, 49}

is_hex(c) == c \in 97..102 \/ c \in 65..70 \/ is_decimal(c)

is_name_start(c) == c \in 65..90 \/ c = 95 \/ c \in 97..122

is_name_part(c) == is_name_start(c) \/ is_decimal(c)

is_newline(c) == c \in {13, 10}

is_whitespace(c) == c \in {9, 11, 32}

\*                      !   %   &   *   +   -   /   <   =   >   ^   |    ~
is_operator(c) == c \in {33, 37, 38, 42, 43, 45, 47, 60, 61, 62, 94, 124, 126}


\* the mnemonics is_instruction accepts
Instructions == {
    <<99, 112>>,                            \* cp
    <<100, 105>>,                           \* di
    <<101, 105>>,                           \* ei
    <<106, 112>>,                           \* jp
    <<106, 114>>,                           \* jr
    <<111, 114>>,                           \* or
    <<114, 108>>,                           \* rl
    <<114, 114>>,                           \* rr
    <<108, 100>>,                           \* ld
    <<97, 100, 99>>,                        \* adc
    <<97, 100, 100>>,                       \* add
    <<97, 110, 100>>,                       \* and
    <<98, 105, 116>>,                       \* bit
    <<99, 99, 102>>,                        \* ccf
    <<99, 112, 108>>,                       \* cpl
    <<100, 97, 97>>,                        \* daa
    <<100, 101, 99>>,                       \* dec
    <<105, 110, 99>>,                       \* inc
    <<108, 100, 104>>,                      \* ldh
    <<110, 111, 112>>,                      \* nop
    <<112, 111, 112>>,                      \* pop
    <<114, 101, 115>>,                      \* res
    <<114, 101, 116>>,                      \* ret
    <<114, 108, 97>>,                       \* rla
    <<114, 108, 99>>,                       \* rlc
    <<114, 114, 97>>,                       \* rra
    <<114, 114, 99>>,                       \* rrc
    <<114, 115, 116>>,                      \* rst
    <<115, 98, 99>>,                        \* sbc
    <<115, 99, 102>>,                       \* scf
    <<115, 101, 116>>,                      \* set
    <<115, 108, 97>>,                       \* sla
    <<115, 114, 97>>,                       \* sra
    <<115, 114, 108>>,                      \* srl
    <<115, 117, 98>>,                       \* sub
    <<120, 111, 114>>,                      \* xor
    <<104, 97, 108, 116>>,                  \* halt
    <<112, 117, 115, 104>>,                 \* push
    <<99, 97, 108, 108>>,                   \* call
    <<114, 101, 116, 105>>,                 \* reti
    <<108, 100, 104, 108>>,                 \* ldhl
    <<114, 108, 99, 97>>,                   \* rlca
    <<114, 114, 99, 97>>,                   \* rrca
    <<115, 116, 111, 112>>,                 \* stop
    <<115, 119, 97, 112>>                   \* swap
}

is_instruction(name) == name \in Instructions

\* the names is_directive accepts
Directives == {
    <<68, 66>>,                             \* DB
    <<68, 87>>,                             \* DW
    <<68, 83>>,                             \* DS
    <<69, 81, 85>>,                         \* EQU
    <<69, 81, 85, 83>>,                     \* EQUS
    <<66, 65, 78, 75>>,                     \* BANK
    <<73, 78, 67, 66, 73, 78>>,             \* INCBIN
    <<83, 69, 67, 84, 73, 79, 78>>,         \* SECTION
    <<73, 78, 67, 76, 85, 68, 69>>          \* INCLUDE
}

is_directive(name) == name \in Directives

KwMacro == <<77, 65, 67, 82, 79>>                       \* "MACRO"

KwEndMacro == <<69, 78, 68, 77, 65, 67, 82, 79>>        \* "ENDMACRO"

---------------------------------------------------------------------------
(* Helpers (lexer.rs)                                                      *)

\* String::from_utf8(bytes).is_ok(): well-formed UTF-8 from position i on
RECURSIVE utf8_from(_, _)
utf8_from(bytes, i) ==
    LET n == Len(bytes)
        cont(j, lo, hi) == j <= n /\ bytes[j] >= lo /\ bytes[j] <= hi
        b == bytes[i]
    IN  IF i > n THEN TRUE
        ELSE IF b < 128 THEN utf8_from(bytes, i + 1)
        ELSE IF b \in 194..223 THEN cont(i + 1, 128, 191) /\ utf8_from(bytes, i + 2)
        ELSE IF b = 224 THEN cont(i + 1, 160, 191) /\ cont(i + 2, 128, 191) /\ utf8_from(bytes, i + 3)
        ELSE IF b = 237 THEN cont(i + 1, 128, 159) /\ cont(i + 2, 128, 191) /\ utf8_from(bytes, i + 3)
        ELSE IF b \in 225..239 THEN cont(i + 1, 128, 191) /\ cont(i + 2, 128, 191) /\ utf8_from(bytes, i + 3)
        ELSE IF b = 240 THEN cont(i + 1, 144, 191) /\ cont(i + 2, 128, 191) /\ cont(i + 3, 128, 191) /\ utf8_from(bytes, i + 4)
        ELSE IF b \in 241..243 THEN cont(i + 1, 128, 191) /\ cont(i + 2, 128, 191) /\ cont(i + 3, 128, 191) /\ utf8_from(bytes, i + 4)
        ELSE IF b = 244 THEN cont(i + 1, 128, 143) /\ cont(i + 2, 128, 191) /\ cont(i + 3, 128, 191) /\ utf8_from(bytes, i + 4)
        ELSE FALSE

is_utf8(bytes) == utf8_from(bytes, 1)

\* string_from_bytes: the text, or the empty string when it is not UTF-8
string_from_bytes(bytes) == IF is_utf8(bytes) THEN bytes ELSE <<>>

\* to_number sums radix^(l - i - 1) * digit for i in 0..l-1 in i32
\* arithmetic.  A debug build panics when that overflows: when the largest
\* power does, or when the sum does (every term is >= 0, so the sum
\* overflows exactly when its Horner form does).
RECURSIVE pow_overflows(_, _, _)
pow_overflows(radix, e, acc) ==
    IF e = 0 THEN FALSE
    ELSE IF acc > 2147483647 \div radix THEN TRUE
    ELSE pow_overflows(radix, e - 1, acc * radix)

RECURSIVE sum_overflows(_, _, _, _)
sum_overflows(bytes, radix, i, acc) ==
    IF i > Len(bytes) THEN FALSE
    ELSE IF acc > (2147483647 - bytes[i]) \div radix THEN TRUE
    ELSE sum_overflows(bytes, radix, i + 1, acc * radix + bytes[i])

to_number_overflows(bytes, radix) ==
    /\ Len(bytes) > 0
    /\ \/ pow_overflows(radix, Len(bytes) - 1, 1)
       \/ sum_overflows(bytes, radix, 1, 0)

\* A release build wraps: the sum modulo 2^32, kept as two 16-bit halves
RECURSIVE wrapping_sum(_, _, _, _, _)
wrapping_sum(bytes, radix, i, hi, lo) ==
    IF i > Len(bytes) THEN <<hi, lo>>
    ELSE LET l == lo * radix + bytes[i]
         IN  wrapping_sum(bytes, radix, i + 1, (hi * radix + l \div 65536) % 65536, l % 65536)

\* to_number: the i32 a release build computes (and a debug build, when
\* nothing overflows)
to_number(bytes, radix) ==
    LET w == wrapping_sum(bytes, radix, 1, 0, 0)
    IN  IF w[1] >= 32768 THEN (w[1] - 65536) * 65536 + w[2] ELSE w[1] * 65536 + w[2]

\* `n as f32' for an integer n >= 0: 24 bits of mantissa, ties to even
RECURSIVE f32_spacing(_, _)
f32_spacing(n, s) == IF n \div s < 16777216 THEN s ELSE f32_spacing(n, 2 * s)

f32_of_nat(n) ==
    LET s == f32_spacing(n, 1)
        q == n \div s
        r == n % s
    IN  IF 2 * r < s THEN q * s
        ELSE IF 2 * r > s THEN (q + 1) * s
        ELSE IF q % 2 = 0 THEN q * s ELSE (q + 1) * s

\* the f32 of the integer n
NumInt(n) == IF n < 0 THEN Num(-1, f32_of_nat(-n), 0, 0) ELSE Num(1, f32_of_nat(n), 0, 0)

---------------------------------------------------------------------------
(* BaseLexer (lexer.rs): every parse function yields [tok, cur]            *)

Scan(tok, cur) == [tok |-> tok, cur |-> cur]

RECURSIVE comment_loop(_, _, _)
comment_loop(src, c, bytes) ==
    IF ~source_is_empty(c) /\ ~is_newline(source_get(c))
    THEN comment_loop(src, source_next(src, c), Append(bytes, source_get(c)))
    ELSE [bytes |-> bytes, cur |-> c]

parse_comment(src, c) ==
    LET r == comment_loop(src, source_next(src, c), <<>>)
    IN  Scan(Tok("Comment", string_from_bytes(r.bytes)), r.cur)

RECURSIVE whitespace_loop(_, _)
whitespace_loop(src, c) ==
    IF ~source_is_empty(c) /\ is_whitespace(source_get(c))
    THEN whitespace_loop(src, source_next(src, c))
    ELSE c

parse_whitespace(src, c) == Scan(Tok("Whitespace", NoVal), whitespace_loop(src, c))

\* the escape sequences of parse_string: escaped byte -> byte pushed
Escapes == [b \in {48, 98, 116, 110, 118, 114, 34, 39, 92} |->
              CASE b = 48 -> 0   [] b = 98 -> 7   [] b = 116 -> 9
                [] b = 110 -> 10 [] b = 118 -> 11 [] b = 114 -> 13
                [] b = 34 -> 34  [] b = 39 -> 39  [] b = 92 -> 92]

\* a literal closed by any quote byte
closes_any_quote(ch, delimiter) == ch \in {34, 39}

\* the byte that closes a literal: the one that opened it
closes(ch, delimiter) == ch = delimiter

RECURSIVE string_loop(_, _, _, _, _)
string_loop(src, c, delimiter, ch, bytes) ==
    IF ~closes(ch, delimiter) /\ ~source_is_empty(c)
    THEN IF ch = 92
         THEN LET c2 == source_next(src, c)
                  e  == source_get(c2)
                  c3 == source_next(src, c2)
              IN  IF e \in DOMAIN Escapes
                  THEN string_loop(src, c3, delimiter, source_get(c3), Append(bytes, Escapes[e]))
                  ELSE [known |-> FALSE, ch |-> e, bytes |-> bytes, cur |-> c2]
         ELSE LET c2 == source_next(src, c)
              IN  string_loop(src, c2, delimiter, source_get(c2), Append(bytes, ch))
    ELSE [known |-> TRUE, ch |-> ch, bytes |-> bytes, cur |-> c]

parse_string(src, c) ==
    LET delimiter == source_get(c)
        c1 == source_next(src, c)
        r  == string_loop(src, c1, delimiter, source_get(c1), <<>>)
    IN  IF ~r.known
        THEN Scan(Tok("Error", <<"Unkown character escape sequence \"", r.ch, "\" in string literal">>), r.cur)
        ELSE IF ~closes(r.ch, delimiter)
        THEN Scan(Tok("Error", <<"Unclosed string literal">>), r.cur)
        ELSE IF is_utf8(r.bytes)
        THEN Scan(Tok("String", r.bytes), source_next(src, r.cur))
        ELSE Scan(Tok("Error", <<"Invalid string literal contents">>), source_next(src, r.cur))

\* the two-byte operators of parse_operator
DoubleOperator(ch, next) ==
    CASE ch = 61 /\ next = 61   -> "Equal"
      [] ch = 62 /\ next = 62   -> "ShiftRight"
      [] ch = 60 /\ next = 60   -> "ShiftLeft"
      [] ch = 38 /\ next = 38   -> "LogicalAnd"
      [] ch = 124 /\ next = 124 -> "LogicalOr"
      [] ch = 33 /\ next = 61   -> "NotEqual"
      [] ch = 62 /\ next = 61   -> "GreaterThanEqual"
      [] ch = 60 /\ next = 61   -> "LessThanEqual"
      [] ch = 47 /\ next = 47   -> "IntegerDivide"
      [] ch = 42 /\ next = 42   -> "Power"
      [] OTHER                  -> ""

\* the one-byte operators of parse_operator
SingleOperator(ch) ==
    CASE ch = 62  -> "GreaterThan"
      [] ch = 60  -> "LessThan"
      [] ch = 33  -> "UnaryNot"
      [] ch = 43  -> "Plus"
      [] ch = 45  -> "Minus"
      [] ch = 42  -> "Multiply"
      [] ch = 47  -> "Divide"
      [] ch = 37  -> "Modulo"
      [] ch = 38  -> "BitwiseAnd"
      [] ch = 124 -> "BitwiseOr"
      [] ch = 126 -> "Negate"
      [] ch = 94  -> "BitwiseXor"
      [] OTHER    -> ""

parse_operator(src, c, ch, next) ==
    LET c1 == source_next(src, c)
    IN  IF DoubleOperator(ch, next) # ""
        THEN Scan(Tok("Operator", DoubleOperator(ch, next)), source_next(src, c1))
        ELSE IF SingleOperator(ch) # ""
        THEN Scan(Tok("Operator", SingleOperator(ch)), c1)
        ELSE Scan(Tok("Error", <<"Invalid operator \"", ch, "\"">>), c1)


\* what a raw scan yields where a debug build panics (arithmetic overflow)
ScanPanic(msg, cur) == Scan(Tok("Panic", msg), cur)

RECURSIVE decimal_part_loop(_, _, _, _)
decimal_part_loop(src, c, digit, bytes) ==
    IF is_decimal(digit)
    THEN LET pushed == Append(bytes, digit - 48)
             c1 == source_next(src, c)
         IN  IF source_get(c1) = 95
             THEN LET c2 == source_next(src, c1)
                  IN  decimal_part_loop(src, c2, source_get(c2), pushed)
             ELSE IF Len(pushed) = 8
             THEN [digit |-> source_get(c1), bytes |-> pushed, cur |-> c1]
             ELSE decimal_part_loop(src, c1, source_get(c1), pushed)
    ELSE [digit |-> digit, bytes |-> bytes, cur |-> c]

\* parse_decimal_part: (digit, to_number(bytes, 10), bytes.len()) and the cursor
parse_decimal_part(src, c) == decimal_part_loop(src, c, source_get(c), <<>>)

parse_decimal(src, c, is_negative, checks) ==
    LET p == parse_decimal_part(src, c)
        number == to_number(p.bytes, 10)
    IN  IF checks /\ to_number_overflows(p.bytes, 10)
        THEN ScanPanic("attempt to multiply with overflow", p.cur)
        ELSE IF Len(p.bytes) = 8
        THEN Scan(Tok("Error", <<"Decimal literal exceeds maximum length of 8 digits">>), p.cur)
        ELSE IF p.digit = 46
        THEN LET q == parse_decimal_part(src, source_next(src, p.cur))
                 float_digits == to_number(q.bytes, 10)
             IN  IF checks /\ to_number_overflows(q.bytes, 10)
                 THEN ScanPanic("attempt to multiply with overflow", q.cur)
                 ELSE Scan(Tok("Number", Num(IF is_negative THEN -1 ELSE 1,
                                             number, float_digits, Len(q.bytes))), q.cur)
        ELSE Scan(Tok("Number", NumInt(IF is_negative THEN -number ELSE number)), p.cur)

RECURSIVE binary_loop(_, _, _, _)
binary_loop(src, c, digit, bytes) ==
    IF is_binary(digit)
    THEN LET pushed == Append(bytes, digit - 48)
             c1 == source_next(src, c)
         IN  IF source_get(c1) = 95
             THEN LET c2 == source_next(src, c1)
                  IN  binary_loop(src, c2, source_get(c2), pushed)
             ELSE IF Len(pushed) = 9
             THEN [long |-> TRUE, bytes |-> pushed, cur |-> c1]
             ELSE binary_loop(src, c1, source_get(c1), pushed)
    ELSE [long |-> FALSE, bytes |-> bytes, cur |-> c]

parse_binary(src, c, checks) ==
    LET r == binary_loop(src, c, source_get(c), <<>>)
    IN  IF r.long
        THEN Scan(Tok("Error", <<"Binary literal exceeds maximum length of 8 digits">>), r.cur)
        ELSE IF checks /\ to_number_overflows(r.bytes, 2)
        THEN ScanPanic("attempt to multiply with overflow", r.cur)
        ELSE Scan(Tok("Number", NumInt(to_number(r.bytes, 2))), r.cur)

\* the value of a hex digit: digit - 87, digit - 55 or digit - b'0'
hex_value(digit) ==
    IF digit >= 97 THEN digit - 87
    ELSE IF digit >= 65 THEN digit - 55
    ELSE digit - 48

RECURSIVE hex_loop(_, _, _, _)
hex_loop(src, c, digit, bytes) ==
    IF is_hex(digit)
    THEN LET pushed == Append(bytes, hex_value(digit))
             c1 == source_next(src, c)
         IN  IF source_get(c1) = 95
             THEN LET c2 == source_next(src, c1)
                  IN  hex_loop(src, c2, source_get(c2), pushed)
             ELSE IF Len(pushed) = 5
             THEN [long |-> TRUE, bytes |-> pushed, cur |-> c1]
             ELSE hex_loop(src, c1, source_get(c1), pushed)
    ELSE [long |-> FALSE, bytes |-> bytes, cur |-> c]

parse_hex(src, c, checks) ==
    LET r == hex_loop(src, c, source_get(c), <<>>)
    IN  IF r.long
        THEN Scan(Tok("Error", <<"Hex literal exceeds maximum length of 4 digits">>), r.cur)
        ELSE IF checks /\ to_number_overflows(r.bytes, 16)
        THEN ScanPanic("attempt to multiply with overflow", r.cur)
        ELSE Scan(Tok("Number", NumInt(to_number(r.bytes, 16))), r.cur)

\* while is_name_part(ch) { bytes.push(ch); ch = next() }
RECURSIVE name_loop(_, _, _)
name_loop(src, c, bytes) ==
    IF is_name_part(source_get(c))
    THEN name_loop(src, source_next(src, c), Append(bytes, source_get(c)))
    ELSE [ch |-> source_get(c), bytes |-> bytes, cur |-> c]

\* a parse_name that tests for the colon before the keyword sets
parse_name_label_first(src, c) ==
    LET r == name_loop(src, c, <<>>)
        name == string_from_bytes(r.bytes)
    IN  IF name # <<>> /\ r.ch = 58
        THEN Scan(Tok("GlobalLabelDef", name), source_next(src, r.cur))
        ELSE IF is_instruction(name) THEN Scan(Tok("Instruction", name), r.cur)
        ELSE IF is_directive(name) THEN Scan(Tok("Directive", name), r.cur)
        ELSE IF name = KwMacro THEN Scan(Tok("MacroDef", NoVal), r.cur)
        ELSE IF name = KwEndMacro THEN Scan(Tok("MacroEnd", NoVal), r.cur)
        ELSE IF name # <<>> THEN Scan(Tok("Name", name), r.cur)
        ELSE Scan(Tok("Error", <<"Unexpected empty name">>), r.cur)

\* BaseLexer::parse_name: the bytes of the name, then its class
parse_name(src, c) ==
    LET r == name_loop(src, c, <<>>)
        name == string_from_bytes(r.bytes)
    IN  IF is_instruction(name) THEN Scan(Tok("Instruction", name), r.cur)
        ELSE IF is_directive(name) THEN Scan(Tok("Directive", name), r.cur)
        ELSE IF name = KwMacro THEN Scan(Tok("MacroDef", NoVal), r.cur)
        ELSE IF name = KwEndMacro THEN Scan(Tok("MacroEnd", NoVal), r.cur)
        ELSE IF name # <<>>
        THEN IF r.ch = 58
             THEN Scan(Tok("GlobalLabelDef", name), source_next(src, r.cur))
             ELSE Scan(Tok("Name", name), r.cur)
        ELSE Scan(Tok("Error", <<"Unexpected empty name">>), r.cur)

parse_local_label(src, c) ==
    LET r == name_loop(src, source_next(src, c), <<source_get(c)>>)
    IN  IF r.ch = 58
        THEN Scan(Tok("LocalLabelDef", string_from_bytes(r.bytes)), source_next(src, r.cur))
        ELSE Scan(Tok("LocalLabelRef", string_from_bytes(r.bytes)), r.cur)

parse_offset_or_macro_arg(src, c) ==
    LET c1 == source_next(src, c)
        sign == source_get(c1)
    IN  IF sign = 45 THEN Scan(Tok("NegativeOffset", NoVal), source_next(src, c1))
        ELSE IF sign = 43 THEN Scan(Tok("PositiveOffset", NoVal), source_next(src, c1))
        ELSE IF is_name_start(sign)
        THEN LET r == name_loop(src, source_next(src, c1), <<sign>>)
             IN  Scan(Tok("MacroArg", string_from_bytes(r.bytes)), r.cur)
        ELSE Scan(Tok("Error", <<"Unexpected \"", sign,
                                "\", expected a valid direction specifier (- or +) instead">>), c1)

\* an Eof arm that steps over the byte 0
eof_token_advances(src, c) == Scan(Tok("Eof", NoVal), source_next(src, c))

\* next_raw_token, the arm of the byte 0: Eof, and the cursor stays
eof_token(src, c) == Scan(Tok("Eof", NoVal), c)

\* BaseLexer::next_raw_token: one token from the current byte, with the
\* byte after it peeked first
next_raw_token(src, cur, checks) ==
    LET ch == source_get(cur)
        pk == source_peek(src, cur)
        next == pk.byte
        c  == pk.cur
    IN  IF ch \in {13, 10} THEN Scan(Tok("Newline", NoVal), source_next(src, c))
        ELSE IF ch = 59 THEN parse_comment(src, c)
        ELSE IF ch = 40 THEN Scan(Tok("LParen", NoVal), source_next(src, c))
        ELSE IF ch = 41 THEN Scan(Tok("RParen", NoVal), source_next(src, c))
        ELSE IF ch = 91 THEN Scan(Tok("LBrace", NoVal), source_next(src, c))
        ELSE IF ch = 93 THEN Scan(Tok("RBrace", NoVal), source_next(src, c))
        ELSE IF ch = 44 THEN Scan(Tok("Comma", NoVal), source_next(src, c))
        ELSE IF ch \in {34, 39} THEN parse_string(src, c)
        ELSE IF ch = 64 THEN parse_offset_or_macro_arg(src, c)
        ELSE IF ch = 45 /\ is_decimal(next) THEN parse_decimal(src, source_next(src, c), TRUE, checks)
        ELSE IF ch = 37 /\ is_binary(next) THEN parse_binary(src, source_next(src, c), checks)
        ELSE IF ch = 36 /\ is_hex(next) THEN parse_hex(src, source_next(src, c), checks)
        ELSE IF ch = 46 /\ is_name_start(next) THEN parse_local_label(src, c)
        ELSE IF is_whitespace(ch) THEN parse_whitespace(src, c)
        ELSE IF is_name_start(ch) THEN parse_name(src, c)
        ELSE IF is_decimal(ch) THEN parse_decimal(src, c, FALSE, checks)
        ELSE IF is_operator(ch) THEN parse_operator(src, c, ch, next)
        ELSE IF ch = 0 THEN eof_token(src, c)
        ELSE Scan(Tok("Error", <<"Unexpected character \"\" (", ch, ")">>), c)

---------------------------------------------------------------------------
(* Operator (operator.rs)                                                  *)

\* Operator::get_prec
get_prec(op) ==
    CASE op = "Paren" -> 0
      [] op = "Call" -> 0
      [] op = "LogicalOr" -> 1
      [] op = "LogicalAnd" -> 2
      [] op = "BitwiseOr" -> 3
      [] op = "BitwiseXor" -> 4
      [] op = "BitwiseAnd" -> 5
      [] op = "Equal" -> 6
      [] op = "NotEqual" -> 6
      [] op = "LessThan" -> 7
      [] op = "GreaterThan" -> 7
      [] op = "LessThanEqual" -> 7
      [] op = "GreaterThanEqual" -> 7
      [] op = "ShiftLeft" -> 8
      [] op = "ShiftRight" -> 8
      [] op = "Plus" -> 9
      [] op = "Minus" -> 9
      [] op = "Negate" -> 9
      [] op = "Multiply" -> 11
      [] op = "Divide" -> 11
      [] op = "IntegerDivide" -> 11
      [] op = "Modulo" -> 11
      [] op = "UnaryNot" -> 12
      [] op = "UnaryMinus" -> 12
      [] op = "Power" -> 13

---------------------------------------------------------------------------
(* Expression (expression.rs)                                              *)

ENumber(v) == [kind |-> "Number", num |-> v]

EString(str) == [kind |-> "String", str |-> str]

EName(name) == [kind |-> "Name", name |-> name]

EBinary(op, left, right) == [kind |-> "Binary", op |-> op, left |-> left, right |-> right]

EUnary(op, child) == [kind |-> "Unary", op |-> op, child |-> child]

ECall(name, args) == [kind |-> "Call", name |-> name, args |-> args]

EInvalid(msg) == [kind |-> "Invalid", msg |-> msg]

Last(stack) == stack[Len(stack)]

Pop(stack) == SubSeq(stack, 1, Len(stack) - 1)

Reverse(seq) == [i \in 1..Len(seq) |-> seq[Len(seq) + 1 - i]]

\* a comparison that also pops an operator of the same precedence
drains_geq(top_prec, prec) == top_prec >= prec

\* a comparison that pops whatever is on top of the stack
drains_always(top_prec, prec) == TRUE

\* the comparison of consume_operator: the operator on top of the stack
\* is popped when its precedence is higher than prec
drains(top_prec, prec) == top_prec > prec

\* the node consume_operator builds for a popped operator that is not
\* UnaryMinus or UnaryNot: a Binary, or Invalid when there is no left operand
binary_node(op, values, right) ==
    IF Len(values) > 0
    THEN EBinary(op, Last(values), right)
    ELSE EInvalid("Invalid unary operator")

\* consume_operator: pops at most one operator; [values, operators, panic]
consume_operator(values, operators, prec) ==
    IF Len(operators) > 0 /\ drains(get_prec(Last(operators)), prec)
    THEN LET op == Last(operators)
         IN  IF Len(values) = 0
             THEN [values |-> values, operators |-> Pop(operators),
                   panic |-> "called Option::unwrap() on a None value"]
             ELSE LET right == Last(values)
                      rest  == Pop(values)
                  IN  IF op \in {"UnaryMinus", "UnaryNot"}
                      THEN [values |-> Append(rest, EUnary(op, right)),
                            operators |-> Pop(operators), panic |-> ""]
                      ELSE [values |-> Append(IF Len(rest) > 0 THEN Pop(rest) ELSE rest,
                                              binary_node(op, rest, right)),
                            operators |-> Pop(operators), panic |-> ""]
    ELSE [values |-> values, operators |-> operators, panic |-> ""]

\* the loop of the RParen arm that builds a call: pop values down to the
\* name of the function; when no Name is left the popped values are dropped
RECURSIVE call_loop(_, _)
call_loop(values, args) ==
    IF Len(values) > 0
    THEN LET value == Last(values)
         IN  IF value.kind = "Name"
             THEN Append(Pop(values), ECall(value.name, Reverse(args)))
             ELSE call_loop(Pop(values), Append(args, value))
    ELSE values

\* the locals of Expression::new before its first token
builder_new == [i |-> 1, values |-> <<>>, operators |-> <<>>,
                valid_unary_position |-> FALSE, is_callable |-> FALSE,
                draining |-> FALSE]

---------------------------------------------------------------------------
(* Lexer (lexer.rs)                                                        *)

\* the (last, next) pairs is_expression lists as true
ExpressionPairs == {
    <<"LParen", "Name">>, <<"LParen", "LocalLabelRef">>, <<"LParen", "Number">>,
    <<"LParen", "String">>, <<"LParen", "Operator">>, <<"LParen", "LParen">>,
    <<"LParen", "RParen">>, <<"LParen", "MacroArg">>,
    <<"RParen", "RParen">>, <<"RParen", "Operator">>,
    <<"Operator", "LParen">>, <<"Operator", "Number">>, <<"Operator", "String">>,
    <<"Operator", "LocalLabelRef">>, <<"Operator", "Name">>, <<"Operator", "MacroArg">>,
    <<"Number", "RParen">>, <<"Number", "Operator">>, <<"Number", "Comma">>,
    <<"String", "RParen">>, <<"String", "Operator">>, <<"String", "Comma">>,
    <<"LocalLabelRef", "RParen">>, <<"LocalLabelRef", "Operator">>, <<"LocalLabelRef", "Comma">>,
    <<"Name", "LParen">>, <<"Name", "RParen">>, <<"Name", "Operator">>, <<"Name", "Comma">>,
    <<"MacroArg", "LParen">>, <<"MacroArg", "RParen">>, <<"MacroArg", "Operator">>,
    <<"MacroArg", "Comma">>,
    <<"Comma", "LParen">>, <<"Comma", "Name">>, <<"Comma", "String">>,
    <<"Comma", "Number">>, <<"Comma", "MacroArg">>,
    <<"Directive", "LParen">>, <<"Directive", "Name">>, <<"Directive", "String">>,
    <<"Directive", "Number">>, <<"Directive", "MacroArg">>,
    <<"Instruction", "LParen">>, <<"Instruction", "Name">>, <<"Instruction", "String">>,
    <<"Instruction", "Number">>, <<"Instruction", "MacroArg">>
}

\* the values of paren_depth: u8
DepthValues == 0..255

\* a relation that also opens an expression at the start of the input and
\* of a line
is_expression_at_line_start(last, next, depth) ==
    IF last = "Comma" /\ depth = 0 THEN FALSE
    ELSE IF next = "Comma" /\ depth = 0 THEN FALSE
    ELSE \/ <<last, next>> \in ExpressionPairs
         \/ last \in {"Begin", "Newline"} /\ next \in {"LParen", "Name", "String", "Number"}

\* a relation that opens a run on an operand right after an Expression
is_expression_after_expression(last, next, depth) ==
    IF last = "Comma" /\ depth = 0 THEN FALSE
    ELSE IF next = "Comma" /\ depth = 0 THEN FALSE
    ELSE \/ <<last, next>> \in ExpressionPairs
         \/ last = "Expression" /\ next \in {"LParen", "Name", "String", "Number"}

\* a relation that lets a run with an open parenthesis go on over a line
\* break
is_expression_across_lines(last, next, depth) ==
    IF last = "Comma" /\ depth = 0 THEN FALSE
    ELSE IF next = "Comma" /\ depth = 0 THEN FALSE
    ELSE \/ <<last, next>> \in ExpressionPairs
         \/ next = "Newline" /\ depth > 0

\* a relation without the comma arms guarded by depth == 0
is_expression_any_depth(last, next, depth) == <<last, next>> \in ExpressionPairs

\* is_expression: the two comma arms guarded by depth == 0 come first
is_expression(last, next, depth) ==
    IF last = "Comma" /\ depth = 0 THEN FALSE
    ELSE IF next = "Comma" /\ depth = 0 THEN FALSE
    ELSE <<last, next>> \in ExpressionPairs

\* Lexer::next, MacroArg arm: the token a raw MacroArg becomes
macro_arg_token(token, in_args, in_body) ==
    IF ~in_args /\ ~in_body
    THEN Tok("Error", <<"Unexpected MarcoArg @", token.val,
                        " outside of marco arguments or macro body">>)
    ELSE Tok("MacroArg", token.val)

\* a default arm that takes no notice of an open macro argument list
forwards_never(in_args) == FALSE

\* Lexer::next, default arm: whether the token is forwarded as it is
\* because a macro argument list is open
forwards_macro_args(in_args) == in_args

\* the reader stops asking once this many reads in a row left the cursor
\* where it was (the reads at the end of input)
MaxIdleReads == 2


\* the fields of Lexer and the locals of Lexer::next, as one record
LexerNow ==
    [in_macro_args |-> in_macro_args, in_macro_body |-> in_macro_body,
     paren_depth |-> paren_depth, last_token_type |-> last_token_type,
     pc |-> pc, token_type |-> token_type, expression_stack |-> expression_stack,
     emitted |-> emitted, idle_reads |-> idle_reads, panic |-> panic]

LexerBecomes(l) ==
    /\ in_macro_args' = l.in_macro_args
    /\ in_macro_body' = l.in_macro_body
    /\ paren_depth' = l.paren_depth
    /\ last_token_type' = l.last_token_type
    /\ pc' = l.pc
    /\ token_type' = l.token_type
    /\ expression_stack' = l.expression_stack
    /\ emitted' = l.emitted
    /\ idle_reads' = l.idle_reads
    /\ panic' = l.panic

\* Lexer::next, lines 159-160: remember the type of the token and return it
returns(l, token) ==
    [l EXCEPT !.last_token_type = to_type(token),
              !.emitted = Append(@, token),
              !.idle_reads = @ + 1,
              !.pc = "next"]

panics(l, msg) == [l EXCEPT !.pc = "panic", !.panic = msg]

\* Lexer::next, default arm outside a macro argument list (lines 107-153):
\* start an expression run with the token, or return the token
collects(l, token) ==
    IF is_expression(l.last_token_type, to_type(token), l.paren_depth)
    THEN [l EXCEPT !.token_type = to_type(token),
                   !.expression_stack = <<Tok("LParen", NoVal), token>>,
                   !.pc = "expr_loop"]
    ELSE returns([l EXCEPT !.token_type = to_type(token)], token)

\* a default arm whose RParen leaves the macro argument list open
default_arm_never_closes(l, token) ==
    IF forwards_macro_args(l.in_macro_args)
    THEN returns(l, token)
    ELSE collects(l, token)

\* Lexer::next, default arm (lines 97-155)
default_arm(l, token) ==
    IF forwards_macro_args(l.in_macro_args)
    THEN IF to_type(token) = "RParen"
         THEN returns([l EXCEPT !.in_macro_args = FALSE, !.in_macro_body = TRUE], token)
         ELSE returns(l, token)
    ELSE collects(l, token)

\* a MacroEnd arm that passes every ENDMACRO on
lexer_macro_end_always(l, token) == returns([l EXCEPT !.in_macro_body = FALSE], token)

\* Lexer::next, MacroEnd arm (lines 86-94)
lexer_macro_end(l, token) ==
    IF ~l.in_macro_body
    THEN returns(l, Tok("Error", <<"Unexpected MARCO_END directive outside of macro">>))
    ELSE returns([l EXCEPT !.in_macro_body = FALSE], token)

\* Lexer::next from its first next_token() on (lines 42-157), for the
\* token that call yielded
lexer_next(l, token) ==
    LET ty == to_type(token)
    IN  IF ty = "PositiveOffset" THEN [l EXCEPT !.pc = "offset_pos"]
        ELSE IF ty = "NegativeOffset" THEN [l EXCEPT !.pc = "offset_neg"]
        ELSE IF ty = "MacroArg"
        THEN returns(l, macro_arg_token(token, l.in_macro_args, l.in_macro_body))
        ELSE IF ty = "MacroDef" THEN [l EXCEPT !.pc = "macro_def"]
        ELSE IF ty = "MacroEnd" THEN lexer_macro_end(l, token)
        ELSE default_arm(l, token)

\* offset arms that take no notice of the sign
lexer_offset_unsigned(l, token) ==
    IF to_type(token) = "Number"
    THEN returns(l, Tok("Offset", as_i32(token.val)))
    ELSE returns(l, Tok("Error", <<"Expected number after offset sign">>))

\* the PositiveOffset / NegativeOffset arms after their next_token() (lines 46-56)
lexer_offset(l, token) ==
    IF to_type(token) = "Number"
    THEN returns(l, Tok("Offset", IF l.pc = "offset_pos" THEN as_i32(token.val)
                                                        ELSE -as_i32(token.val)))
    ELSE returns(l, Tok("Error", <<"Expected number after offset sign">>))

\* a MacroDef arm that opens an argument list inside an open one
lexer_macro_def_nested(l, token) ==
    IF to_type(token) = "Name"
    THEN returns([l EXCEPT !.in_macro_args = TRUE], Tok("Macro", token.val))
    ELSE returns(l, Tok("Error", <<"Expected name after MARCO directive">>))

\* the MacroDef arm after its next_token() (lines 71-82)
lexer_macro_def(l, token) ==
    IF to_type(token) = "Name"
    THEN IF l.in_macro_args
         THEN returns(l, Tok("Error", <<"Already inside a MACRO arguments signature">>))
         ELSE returns([l EXCEPT !.in_macro_args = TRUE], Tok("Macro", token.val))
    ELSE returns(l, Tok("Error", <<"Expected name after MARCO directive">>))

\* an expression loop that counts the opening parentheses only
expr_loop_counts_opens(l, checks) ==
    IF l.token_type = "LParen" /\ l.paren_depth < 255
    THEN [l EXCEPT !.paren_depth = @ + 1, !.last_token_type = l.token_type, !.pc = "expr_peek"]
    ELSE [l EXCEPT !.last_token_type = l.token_type, !.pc = "expr_peek"]

\* the expression loop up to its peek (lines 121-128): count the
\* parenthesis in u8 arithmetic, remember the token type
expr_loop(l, checks) ==
    LET counted ==
            IF l.token_type = "LParen"
            THEN IF l.paren_depth = 255
                 THEN IF checks THEN panics(l, "attempt to add with overflow")
                      ELSE [l EXCEPT !.paren_depth = 0]
                 ELSE [l EXCEPT !.paren_depth = @ + 1]
            ELSE IF l.token_type = "RParen"
            THEN IF l.paren_depth = 0
                 THEN IF checks THEN panics(l, "attempt to subtract with overflow")
                      ELSE [l EXCEPT !.paren_depth = 255]
                 ELSE [l EXCEPT !.paren_depth = @ - 1]
            ELSE l
    IN  IF counted.pc = "panic" THEN counted
        ELSE [counted EXCEPT !.last_token_type = l.token_type, !.pc = "expr_peek"]

\* the expression loop from its peek on (lines 131-147), for the token
\* peeked: take it into the run, or close the run and build it
expr_peek(l, token) ==
    IF is_expression(l.last_token_type, to_type(token), l.paren_depth)
    THEN [l EXCEPT !.token_type = to_type(token),
                   !.expression_stack = Append(@, token),
                   !.pc = "expr_loop"]
    ELSE [l EXCEPT !.token_type = to_type(token),
                   !.expression_stack = Append(@, Tok("RParen", NoVal)),
                   !.pc = "build"]

---------------------------------------------------------------------------
(* Expression::new, one token at a time                                    *)

Built(b, msg) == [b |-> b, panic |-> msg]

\* a minus that is never taken for a unary operator
unary_operator_kept(op) == op

\* the Operator arm in unary position: Minus is replaced by UnaryMinus
unary_operator(op) == IF op = "Minus" THEN "UnaryMinus" ELSE op

\* Expression::new, the body of `for token in tokens' for one token; the
\* RParen | Comma arm is entered here and runs in build_drain
build_token(b, token) ==
    LET ty == to_type(token)
    IN  IF ty = "Number"
        THEN Built([b EXCEPT !.values = Append(@, ENumber(token.val)), !.is_callable = FALSE,
                             !.valid_unary_position = FALSE, !.i = @ + 1], "")
        ELSE IF ty = "String"
        THEN Built([b EXCEPT !.values = Append(@, EString(token.val)), !.is_callable = FALSE,
                             !.valid_unary_position = FALSE, !.i = @ + 1], "")
        ELSE IF ty = "LParen"
        THEN Built([b EXCEPT !.operators = IF b.is_callable THEN @ \o <<"Call", "Paren">>
                                                            ELSE Append(@, "Paren"),
                             !.is_callable = FALSE,
                             !.valid_unary_position = TRUE, !.i = @ + 1], "")
        ELSE IF ty = "Name"
        THEN Built([b EXCEPT !.values = Append(@, EName(token.val)), !.is_callable = TRUE,
                             !.valid_unary_position = FALSE, !.i = @ + 1], "")
        ELSE IF ty = "Operator"
        THEN IF b.valid_unary_position
             THEN LET op == unary_operator(token.val)
                  IN  Built([b EXCEPT !.operators = Append(@, op), !.is_callable = FALSE,
                                      !.valid_unary_position = TRUE, !.i = @ + 1], "")
             ELSE LET r == consume_operator(b.values, b.operators, get_prec(token.val))
                  IN  IF r.panic # ""
                      THEN Built([b EXCEPT !.values = r.values, !.operators = r.operators], r.panic)
                      ELSE Built([b EXCEPT !.values = r.values,
                                           !.operators = Append(r.operators, token.val),
                                           !.is_callable = FALSE,
                                           !.valid_unary_position = TRUE, !.i = @ + 1], "")
        ELSE IF ty \in {"RParen", "Comma"}
        THEN Built([b EXCEPT !.draining = TRUE], "")
        ELSE Built(b, "internal error: entered unreachable code")

\* the RParen | Comma arm: one test of its while loop, and either one
\* consume_operator or the rest of the arm
build_drain(b, token) ==
    IF Len(b.operators) = 0
    THEN Built(b, "called Option::unwrap() on a None value")
    ELSE IF Last(b.operators) # "Paren"
    THEN LET r == consume_operator(b.values, b.operators, 0)
         IN  Built([b EXCEPT !.values = r.values, !.operators = r.operators], r.panic)
    ELSE LET popped == Pop(b.operators)
             is_call == Len(popped) > 0 /\ Last(popped) = "Call"
         IN  IF to_type(token) = "RParen"
             THEN Built([b EXCEPT !.operators = IF is_call THEN Pop(popped) ELSE popped,
                                  !.values = IF is_call THEN call_loop(@, <<>>) ELSE @,
                                  !.is_callable = FALSE, !.valid_unary_position = FALSE,
                                  !.draining = FALSE, !.i = @ + 1], "")
             ELSE Built([b EXCEPT !.is_callable = FALSE, !.valid_unary_position = FALSE,
                                  !.draining = FALSE, !.i = @ + 1], "")

\* the end of Expression::new: its two assertions, then the value returned
build_finish(b) ==
    IF Len(b.operators) # 0
    THEN [expr |-> EInvalid(""), panic |-> "assertion failed: operators.len() == 0"]
    ELSE IF Len(b.values) # 1
    THEN [expr |-> EInvalid(""), panic |-> "assertion failed: values.len() == 1"]
    ELSE [expr |-> b.values[1], panic |-> ""]

---------------------------------------------------------------------------
(* Source texts                                                            *)

\* the end-to-end inputs of the specification, and statements longer than
\* the lexeme sequences below
Scenarios == {
    \* ld a, 1 + 2 * 3
    <<108, 100, 32, 97, 44, 32, 49, 32, 43, 32, 50, 32, 42, 32, 51>>,
    \* label:\n  nop
    <<108, 97, 98, 101, 108, 58, 10, 32, 32, 110, 111, 112>>,
    \* MACRO foo(@a, @b)\n  add @a, @b\nENDMACRO
    <<77, 65, 67, 82, 79, 32, 102, 111, 111, 40, 64, 97, 44, 32, 64, 98, 41, 10, 32, 32, 97, 100, 100, 32, 64, 97, 44, 32, 64, 98, 10, 69, 78, 68, 77, 65, 67, 82, 79>>,
    \* DB $FF, %10101010, -3.5
    <<68, 66, 32, 36, 70, 70, 44, 32, 37, 49, 48, 49, 48, 49, 48, 49, 48, 44, 32, 45, 51, 46, 53>>,
    \* @+4
    <<64, 43, 52>>,
    \* @-2
    <<64, 45, 50>>,
    \* ld a, (hl)
    <<108, 100, 32, 97, 44, 32, 40, 104, 108, 41>>,
    \* ld (+1, f(~1) ! 3)
    <<108, 100, 32, 40, 43, 49, 44, 32, 102, 40, 126, 49, 41, 32, 33, 32, 51, 41>>,
    \* MACRO f(MACRO g MACRO 1)
    <<77, 65, 67, 82, 79, 32, 102, 40, 77, 65, 67, 82, 79, 32, 103, 32, 77, 65, 67, 82, 79, 32, 49, 41>>,
    \* ld a ; x\n@+1 MACRO f
    <<108, 100, 32, 97, 32, 59, 32, 120, 10, 64, 43, 49, 32, 77, 65, 67, 82, 79, 32, 102>>,
    \* a, the byte 0, b
    <<97, 0, 98>>,
    \* MACRO f()\nMACRO g(ENDMACRO)\nENDMACRO\nENDMACRO
    <<77, 65, 67, 82, 79, 32, 102, 40, 41, 10, 77, 65, 67, 82, 79, 32, 103, 40, 69, 78, 68, 77, 65, 67, 82, 79, 41, 10, 69, 78, 68, 77, 65, 67, 82, 79, 10, 69, 78, 68, 77, 65, 67, 82, 79>>
}

\* the texts of a sequence of lexemes, joined
RECURSIVE Concat(_)
Concat(seqs) == IF seqs = <<>> THEN <<>> ELSE Head(seqs) \o Concat(Tail(seqs))

SeqsUpTo(S, n) == UNION {[1..k -> S] : k \in 0..n}

\* lexemes of statements: an instruction, operands, punctuation
Lexemes == {
    <<108, 100, 32>>,   \* "ld "
    <<97>>,   \* "a"
    <<49>>,   \* "1"
    <<43>>,   \* "+"
    <<40>>,   \* "("
    <<41>>,   \* ")"
    <<44>>,   \* ","
    <<64, 97>>,   \* "@a"
    <<10>>,   \* "\n"
    <<64, 43>>,   \* "@+"
    <<77, 65, 67, 82, 79, 32>>,   \* "MACRO "
    <<69, 78, 68, 77, 65, 67, 82, 79>>    \* "ENDMACRO"
}

\* what comes before the lexemes: nothing, an open macro argument list, a
\* macro body
Prefixes == {
    <<>>,
    <<77, 65, 67, 82, 79, 32, 102, 40>>,   \* "MACRO f("
    <<77, 65, 67, 82, 79, 32, 102, 40, 41, 10>>    \* "MACRO f()\n"
}

\* the longest run of lexemes in a source text
MaxLexemes == 3

LexemeSources == {p \o Concat(ls) : p \in Prefixes, ls \in SeqsUpTo(Lexemes, MaxLexemes)}

Sources == Scenarios \cup LexemeSources

---------------------------------------------------------------------------
(* The state machine                                                       *)

Init ==
    /\ source \in Sources
    /\ overflow_checks = "any"
    /\ cursor_call = NoCall
    /\ cli = NoCli
    /\ cursor = source_next(source, SourceString_new)     \* BaseLexer::new
    /\ peeked = NoToken
    /\ in_macro_args = FALSE
    /\ in_macro_body = FALSE
    /\ paren_depth = 0
    /\ last_token_type = "Begin"
    /\ pc = "next"
    /\ token_type = "None"
    /\ expression_stack = <<>>
    /\ builder = builder_new
    /\ emitted = <<>>
    /\ idle_reads = 0
    /\ panic = ""

\* the reader asks for another token
Reading == idle_reads <= MaxIdleReads

\* a token of the BaseLexer is being waited for
Demand ==
    IF pc = "next" THEN Reading
    ELSE pc \in {"offset_pos", "offset_neg", "macro_def", "expr_peek"}

\* the build profiles the run so far is compatible with
Profiles == IF overflow_checks = "any" THEN {"debug", "release"} ELSE {overflow_checks}

cursor_moved(c, c2) == c2.bytes # c.bytes \/ c2.last # c.last

\* a loop that passes every token on
skips_nothing(token) == FALSE

\* BaseLexer::next: the tokens its loop does not return
skips(token) == token.type \in {"Whitespace", "Comment"}

\* BaseLexer::next: one turn of its loop, next_raw_token and the filter of
\* Whitespace and Comment
RawScan ==
    /\ Demand
    /\ peeked.type = "None"
    /\ \E profile \in Profiles :
         LET r == next_raw_token(source, cursor, profile = "debug")
         IN  /\ cursor' = r.cur
             /\ peeked' = IF skips(r.tok) \/ r.tok.type = "Panic"
                          THEN NoToken ELSE r.tok
             /\ pc' = IF r.tok.type = "Panic" THEN "panic" ELSE pc
             /\ panic' = IF r.tok.type = "Panic" THEN r.tok.val ELSE panic
             /\ idle_reads' = IF cursor_moved(cursor, r.cur) THEN 0 ELSE idle_reads
             /\ overflow_checks' =
                    IF next_raw_token(source, cursor, TRUE).tok.type = "Panic"
                    THEN profile ELSE overflow_checks
    /\ UNCHANGED <<source, cursor_call, cli, in_macro_args, in_macro_body, paren_depth, last_token_type,
                   token_type, expression_stack, builder, emitted>>

\* Lexer::next, from its call to the token it returns or to the next
\* token it waits for
LexerNext ==
    /\ pc = "next"
    /\ Reading
    /\ peeked.type # "None"
    /\ peeked' = NoToken
    /\ LexerBecomes(lexer_next(LexerNow, peeked))
    /\ UNCHANGED <<source, cursor_call, cli, cursor, builder, overflow_checks>>

LexerOffset ==
    /\ pc \in {"offset_pos", "offset_neg"}
    /\ peeked.type # "None"
    /\ peeked' = NoToken
    /\ LexerBecomes(lexer_offset(LexerNow, peeked))
    /\ UNCHANGED <<source, cursor_call, cli, cursor, builder, overflow_checks>>

LexerMacroDef ==
    /\ pc = "macro_def"
    /\ peeked.type # "None"
    /\ peeked' = NoToken
    /\ LexerBecomes(lexer_macro_def(LexerNow, peeked))
    /\ UNCHANGED <<source, cursor_call, cli, cursor, builder, overflow_checks>>

ExprLoop ==
    /\ pc = "expr_loop"
    /\ \E profile \in Profiles :
         /\ LexerBecomes(expr_loop(LexerNow, profile = "debug"))
         /\ overflow_checks' =
                IF expr_loop(LexerNow, TRUE).pc = "panic" THEN profile ELSE overflow_checks
    /\ UNCHANGED <<source, cursor_call, cli, cursor, peeked, builder>>

ExprPeek ==
    /\ pc = "expr_peek"
    /\ peeked.type # "None"
    /\ LET l == expr_peek(LexerNow, peeked)
       IN  /\ LexerBecomes(l)
           /\ peeked' = IF l.pc = "build" THEN peeked ELSE NoToken
           /\ builder' = IF l.pc = "build" THEN builder_new ELSE builder
    /\ UNCHANGED <<source, cursor_call, cli, cursor, overflow_checks>>

BuildToken ==
    /\ pc = "build"
    /\ ~builder.draining
    /\ builder.i <= Len(expression_stack)
    /\ LET r == build_token(builder, expression_stack[builder.i])
       IN  /\ builder' = r.b
           /\ pc' = IF r.panic # "" THEN "panic" ELSE pc
           /\ panic' = r.panic
    /\ UNCHANGED <<source, cursor_call, cli, cursor, peeked, in_macro_args, in_macro_body, paren_depth,
                   last_token_type, token_type, expression_stack, emitted, idle_reads,
                   overflow_checks>>

BuildDrain ==
    /\ pc = "build"
    /\ builder.draining
    /\ LET r == build_drain(builder, expression_stack[builder.i])
       IN  /\ builder' = r.b
           /\ pc' = IF r.panic # "" THEN "panic" ELSE pc
           /\ panic' = r.panic
    /\ UNCHANGED <<source, cursor_call, cli, cursor, peeked, in_macro_args, in_macro_body, paren_depth,
                   last_token_type, token_type, expression_stack, emitted, idle_reads,
                   overflow_checks>>

BuildFinish ==
    /\ pc = "build"
    /\ ~builder.draining
    /\ builder.i > Len(expression_stack)
    /\ LET r == build_finish(builder)
       IN  IF r.panic # ""
           THEN LexerBecomes(panics(LexerNow, r.panic))
           ELSE LexerBecomes([returns(LexerNow, Tok("Expression", r.expr))
                                 EXCEPT !.expression_stack = <<>>])
    /\ builder' = builder_new
    /\ UNCHANGED <<source, cursor_call, cli, cursor, peeked, overflow_checks>>

Next ==
    \/ RawScan
    \/ LexerNext
    \/ LexerOffset
    \/ LexerMacroDef
    \/ ExprLoop
    \/ ExprPeek
    \/ BuildToken
    \/ BuildDrain
    \/ BuildFinish

Spec == Init /\ [][Next]_vars

---------------------------------------------------------------------------
(* Expression statements: "ld" and one operand run of names and binary     *)
(* operators                                                               *)

\* the binary operators and the text parse_operator reads each from
BinaryOperators == {
    [op |-> "ShiftRight", text |-> <<62, 62>>],          \* >>
    [op |-> "ShiftLeft", text |-> <<60, 60>>],           \* <<
    [op |-> "LogicalAnd", text |-> <<38, 38>>],          \* &&
    [op |-> "LogicalOr", text |-> <<124, 124>>],         \* ||
    [op |-> "Equal", text |-> <<61, 61>>],              \* ==
    [op |-> "NotEqual", text |-> <<33, 61>>],            \* !=
    [op |-> "GreaterThanEqual", text |-> <<62, 61>>],    \* >=
    [op |-> "LessThanEqual", text |-> <<60, 61>>],       \* <=
    [op |-> "Power", text |-> <<42, 42>>],               \* **
    [op |-> "IntegerDivide", text |-> <<47, 47>>],           \* //
    [op |-> "LessThan", text |-> <<60>>],                \* <
    [op |-> "GreaterThan", text |-> <<62>>],             \* >
    [op |-> "Plus", text |-> <<43>>],                    \* +
    [op |-> "Minus", text |-> <<45>>],                   \* -
    [op |-> "Multiply", text |-> <<42>>],                \* *
    [op |-> "Divide", text |-> <<47>>],                  \* /
    [op |-> "Modulo", text |-> <<37>>],                  \* %
    [op |-> "BitwiseAnd", text |-> <<38>>],                  \* &
    [op |-> "BitwiseOr", text |-> <<124>>],                  \* |
    [op |-> "Negate", text |-> <<126>>],              \* ~
    [op |-> "BitwiseXor", text |-> <<94>>]                   \* ^
}

\* the i-th operand of a statement: the names a, b, c, ...
Operand(i) == <<96 + i>>

\* "ld " and the operands a, b, ... joined by the operators of ops
RECURSIVE OperandRun(_, _)
OperandRun(ops, i) ==
    IF i > Len(ops) THEN Operand(i)
    ELSE Operand(i) \o ops[i].text \o OperandRun(ops, i + 1)

ExprSource(ops) == <<108, 100, 32>> \o OperandRun(ops, 1)

\* the tree that groups every operator of ops to the right:  a op (b op (c ..))
RECURSIVE RightNested(_, _)
RightNested(ops, i) ==
    IF i > Len(ops) THEN EName(Operand(i))
    ELSE EBinary(ops[i].op, EName(Operand(i)), RightNested(ops, i + 1))

\* the two trees of  a op1 b op2 c
LeftGrouped(op1, op2) ==
    EBinary(op2.op, EBinary(op1.op, EName(Operand(1)), EName(Operand(2))), EName(Operand(3)))

RightGrouped(op1, op2) ==
    EBinary(op1.op, EName(Operand(1)), EBinary(op2.op, EName(Operand(2)), EName(Operand(3))))

\* all pairs of two distinct binary operators
OperatorPairs ==
    {pair \in [1..2 -> BinaryOperators] : pair[1] # pair[2]}

\* the longest chain of operators of one precedence
MaxChain == 4

\* the operators that chains are made of: two precedence levels with more
\* than one operator each, and one with a single operator
ChainOperators ==
    {o \in BinaryOperators : o.op \in {"Plus", "Minus", "Multiply", "Divide", "Modulo", "Power"}}

\* two operators of one precedence, the same operator twice included, and
\* chains of up to MaxChain operators of one precedence
OperatorChains ==
    {ch \in [1..2 -> BinaryOperators] : get_prec(ch[1].op) = get_prec(ch[2].op)}
    \cup {ch \in UNION {[1..k -> ChainOperators] : k \in 3..MaxChain} :
            \A i \in 1..Len(ch) : get_prec(ch[i].op) = get_prec(ch[1].op)}

ExprSources ==
    {ExprSource(ops) : ops \in OperatorPairs \cup OperatorChains} \cup Scenarios

InitExpr ==
    /\ source \in ExprSources
    /\ overflow_checks = "any"
    /\ cursor_call = NoCall
    /\ cli = NoCli
    /\ cursor = source_next(source, SourceString_new)
    /\ peeked = NoToken
    /\ in_macro_args = FALSE
    /\ in_macro_body = FALSE
    /\ paren_depth = 0
    /\ last_token_type = "Begin"
    /\ pc = "next"
    /\ token_type = "None"
    /\ expression_stack = <<>>
    /\ builder = builder_new
    /\ emitted = <<>>
    /\ idle_reads = 0
    /\ panic = ""

SpecExpr == InitExpr /\ [][Next]_vars

---------------------------------------------------------------------------
(* Literal statements: one numeric literal as the whole source text        *)

\* the most digits of a literal
MaxDigits == 9

DecimalDigits == {49, 57}    \* "1", "9"

\* decimal literals of one to MaxDigits digits
DecimalLiterals == UNION {[1..k -> DecimalDigits] : k \in 1..MaxDigits}

LiteralSources == DecimalLiterals \cup Scenarios

InitLiteral ==
    /\ source \in LiteralSources
    /\ overflow_checks = "any"
    /\ cursor_call = NoCall
    /\ cli = NoCli
    /\ cursor = source_next(source, SourceString_new)
    /\ peeked = NoToken
    /\ in_macro_args = FALSE
    /\ in_macro_body = FALSE
    /\ paren_depth = 0
    /\ last_token_type = "Begin"
    /\ pc = "next"
    /\ token_type = "None"
    /\ expression_stack = <<>>
    /\ builder = builder_new
    /\ emitted = <<>>
    /\ idle_reads = 0
    /\ panic = ""

SpecLiteral == InitLiteral /\ [][Next]_vars

---------------------------------------------------------------------------
(* String statements: quotes, a letter and the backslash in every order    *)

\* the most bytes of a string statement
MaxString == 4

StringBytes == {34, 39, 97, 92}    \* double quote, single quote, "a", backslash

\* texts of up to MaxString bytes that open a string literal
StringLiterals ==
    {s \in UNION {[1..k -> StringBytes] : k \in 1..MaxString} : s[1] \in {34, 39}}

StringSources == StringLiterals \cup Scenarios

InitString ==
    /\ source \in StringSources
    /\ overflow_checks = "any"
    /\ cursor_call = NoCall
    /\ cli = NoCli
    /\ cursor = source_next(source, SourceString_new)
    /\ peeked = NoToken
    /\ in_macro_args = FALSE
    /\ in_macro_body = FALSE
    /\ paren_depth = 0
    /\ last_token_type = "Begin"
    /\ pc = "next"
    /\ token_type = "None"
    /\ expression_stack = <<>>
    /\ builder = builder_new
    /\ emitted = <<>>
    /\ idle_reads = 0
    /\ panic = ""

SpecString == InitString /\ [][Next]_vars

---------------------------------------------------------------------------
(* Builder statements: "ld" and one operand that is a call, a run of       *)
(* three operators, or a minus in each position                            *)

\* the most arguments of a call
MaxArgs == 2

\* the arguments of a call: their text and the tree each one stands for
Arguments == {
    [text |-> <<49>>, tree |-> ENumber(NumInt(1))],                       \* 1
    [text |-> <<97>>, tree |-> EName(<<97>>)],                            \* a
    [text |-> <<97, 43, 49>>,                                             \* a+1
     tree |-> EBinary("Plus", EName(<<97>>), ENumber(NumInt(1)))],
    [text |-> <<103, 40, 50, 41>>,                                        \* g(2)
     tree |-> ECall(<<103>>, <<ENumber(NumInt(2))>>)]
}

ArgumentLists == UNION {[1..n -> Arguments] : n \in 0..MaxArgs}

\* the texts of args joined by commas
RECURSIVE ArgumentRun(_, _)
ArgumentRun(args, i) ==
    IF i > Len(args) THEN <<>>
    ELSE args[i].text \o (IF i < Len(args) THEN <<44>> ELSE <<>>) \o ArgumentRun(args, i + 1)

\* "ld f(" args ")"
CallSource(args) == <<108, 100, 32, 102, 40>> \o ArgumentRun(args, 1) \o <<41>>

\* the tree of the call: Call(f, [e1, ..., en])
CallTree(args) == ECall(<<102>>, [i \in 1..Len(args) |-> args[i].tree])

\* the most operators in a run
MaxRun == 3

\* the operators that runs are made of: one of each of four precedences
RunOperators ==
    {o \in BinaryOperators : o.op \in {"BitwiseOr", "Plus", "Multiply", "Power"}}

\* runs of up to MaxRun operators, of any precedences in any order
OperatorRuns == UNION {[1..k -> RunOperators] : k \in 1..MaxRun}

BuildSources ==
    {CallSource(args) : args \in ArgumentLists}
    \cup {ExprSource(ops) : ops \in OperatorRuns}
    \cup Scenarios

InitBuild ==
    /\ source \in BuildSources
    /\ overflow_checks = "any"
    /\ cursor_call = NoCall
    /\ cli = NoCli
    /\ cursor = source_next(source, SourceString_new)
    /\ peeked = NoToken
    /\ in_macro_args = FALSE
    /\ in_macro_body = FALSE
    /\ paren_depth = 0
    /\ last_token_type = "Begin"
    /\ pc = "next"
    /\ token_type = "None"
    /\ expression_stack = <<>>
    /\ builder = builder_new
    /\ emitted = <<>>
    /\ idle_reads = 0
    /\ panic = ""

SpecBuild == InitBuild /\ [][Next]_vars

---------------------------------------------------------------------------
(* Expression::new on its own: any buffer of names, operators and          *)
(* parentheses, wrapped in a pair of parentheses as the classifier does    *)

\* the most tokens of a buffer, the wrapping parentheses not counted
MaxTokens == 5

BufferTokens == {
    Tok("Name", <<97>>), Tok("Operator", "Minus"), Tok("Operator", "Multiply"),
    Tok("LParen", NoVal), Tok("RParen", NoVal)
}

Wrapped(tokens) == <<Tok("LParen", NoVal)>> \o tokens \o <<Tok("RParen", NoVal)>>

Buffers == {Wrapped(tokens) : tokens \in UNION {[1..n -> BufferTokens] : n \in 0..MaxTokens}}

InitNew ==
    /\ expression_stack \in Buffers
    /\ pc = "build"
    /\ builder = builder_new
    /\ source = <<>>
    /\ overflow_checks = "any"
    /\ cursor_call = NoCall
    /\ cli = NoCli
    /\ cursor = source_next(source, SourceString_new)
    /\ peeked = NoToken
    /\ in_macro_args = FALSE
    /\ in_macro_body = FALSE
    /\ paren_depth = 0
    /\ last_token_type = "Begin"
    /\ token_type = "None"
    /\ emitted = <<>>
    /\ idle_reads = 0
    /\ panic = ""

NextNew ==
    \/ BuildToken
    \/ BuildDrain
    \/ BuildFinish

SpecNew == InitNew /\ [][NextNew]_vars

---------------------------------------------------------------------------
(* Names: a keyword or a plain name, and what follows it                   *)

Names == {
    <<108, 100>>,                           \* ld
    <<110, 111, 112>>,                      \* nop
    <<68, 66>>,                             \* DB
    <<69, 81, 85>>,                         \* EQU
    KwMacro,                                \* MACRO
    KwEndMacro,                             \* ENDMACRO
    <<102, 111, 111>>,                      \* foo
    <<108, 100, 120>>,                      \* ldx
    <<108, 100, 49>>,                       \* ld1
    <<76, 68>>,                             \* LD
    <<109, 97, 99, 114, 111>>,              \* macro
    <<95>>                                  \* _
}

Followers == {
    <<>>,
    <<58>>,                                 \* ":"
    <<32>>,                                 \* " "
    <<32, 58>>,                             \* " :"
    <<58, 58>>,                             \* "::"
    <<58, 10>>,                             \* ":" and a newline
    <<58, 32, 110, 111, 112, 58>>,          \* ": nop:"
    <<58, 120, 58>>                         \* ":x:"
}

NameSources == {name \o follower : name \in Names, follower \in Followers}

InitName ==
    /\ source \in NameSources \cup Scenarios
    /\ overflow_checks = "any"
    /\ cursor_call = NoCall
    /\ cli = NoCli
    /\ cursor = source_next(source, SourceString_new)
    /\ peeked = NoToken
    /\ in_macro_args = FALSE
    /\ in_macro_body = FALSE
    /\ paren_depth = 0
    /\ last_token_type = "Begin"
    /\ pc = "next"
    /\ token_type = "None"
    /\ expression_stack = <<>>
    /\ builder = builder_new
    /\ emitted = <<>>
    /\ idle_reads = 0
    /\ panic = ""

SpecName == InitName /\ [][Next]_vars

---------------------------------------------------------------------------
(* Offsets: a sigil and what follows it                                    *)

\* Lexer::new on one of the texts
StartsOn(texts) ==
    /\ source \in texts
    /\ overflow_checks = "any"
    /\ cursor_call = NoCall
    /\ cli = NoCli
    /\ cursor = source_next(source, SourceString_new)
    /\ peeked = NoToken
    /\ in_macro_args = FALSE
    /\ in_macro_body = FALSE
    /\ paren_depth = 0
    /\ last_token_type = "Begin"
    /\ pc = "next"
    /\ token_type = "None"
    /\ expression_stack = <<>>
    /\ builder = builder_new
    /\ emitted = <<>>
    /\ idle_reads = 0
    /\ panic = ""

Sigils == {<<64, 43>>, <<64, 45>>}    \* "@+", "@-"

AfterSigil == {
    <<>>,
    <<53>>,                                 \* 5
    <<48>>,                                 \* 0
    <<45, 53>>,                             \* -5
    <<45, 48>>,                             \* -0
    <<32, 53>>,                             \* " 5"
    <<32, 45, 53>>,                         \* " -5"
    <<45, 32, 53>>,                         \* "- 5"
    <<51, 46, 53>>,                         \* 3.5
    <<45, 51, 46, 53>>,                     \* -3.5
    <<36, 70, 70>>,                         \* $FF
    <<37, 49, 48>>,                         \* %10
    <<97>>,                                 \* a
    <<10, 53>>,                             \* a newline, 5
    <<64, 43, 53>>,                         \* @+5
    <<64, 45, 45, 53>>                      \* @--5
}

OffsetSources == {sigil \o after : sigil \in Sigils, after \in AfterSigil}

InitOffset == StartsOn(OffsetSources \cup Scenarios)

SpecOffset == InitOffset /\ [][Next]_vars

---------------------------------------------------------------------------
(* Numbers: decimal, binary and hexadecimal literals with interleaved      *)
(* underscores                                                             *)

\* n digits 1, each followed by an underscore where the mask says so
Underscored(n) ==
    {Concat([i \in 1..n |-> IF mask[i] THEN <<49, 95>> ELSE <<49>>]) :
        mask \in [1..n -> BOOLEAN]}

Radixes == {<<>>, <<37>>, <<36>>}    \* decimal, "%", "$"

NumberSources ==
    {radix \o digits : radix \in Radixes,
                       digits \in UNION {Underscored(n) : n \in 1..MaxDigits}}

InitNumber == StartsOn(NumberSources \cup Scenarios)

SpecNumber == InitNumber /\ [][Next]_vars

---------------------------------------------------------------------------
(* The command line program (main.rs, compiler.rs, source_file.rs): main   *)
(* compiles the files it was given, each one opened and lexed in turn      *)

\* the most source files on a command line
MaxFiles == 2

\* a source file: one that cannot be opened, or one that holds a text
CliFiles ==
    {[opens |-> FALSE, text |-> <<>>]} \cup {[opens |-> TRUE, text |-> s] : s \in Scenarios}

CommandLines == UNION {[1..n -> CliFiles] : n \in 0..MaxFiles}

\* the value compile_source_files returns, on every path
compile_result == "Ok"

InitCli ==
    /\ \E files \in CommandLines :
         cli = [pc |-> "main", files |-> files, i |-> 1, exit_code |-> -1, stderr |-> 0,
                unopened |-> 0, errors |-> 0]
    /\ source = <<>>
    /\ overflow_checks = "any"
    /\ cursor_call = NoCall
    /\ cursor = SourceString_new
    /\ peeked = NoToken
    /\ in_macro_args = FALSE
    /\ in_macro_body = FALSE
    /\ paren_depth = 0
    /\ last_token_type = "Begin"
    /\ pc = "next"
    /\ token_type = "None"
    /\ expression_stack = <<>>
    /\ builder = builder_new
    /\ emitted = <<>>
    /\ idle_reads = 0
    /\ panic = ""

\* Lexer::new(self).peekable() in SourceFile::parse: a lexer on the file
LexerStarts(text) ==
    /\ source' = text
    /\ cursor' = source_next(text, SourceString_new)
    /\ peeked' = NoToken
    /\ in_macro_args' = FALSE
    /\ in_macro_body' = FALSE
    /\ paren_depth' = 0
    /\ last_token_type' = "Begin"
    /\ pc' = "next"
    /\ token_type' = "None"
    /\ expression_stack' = <<>>
    /\ builder' = builder_new
    /\ emitted' = <<>>
    /\ idle_reads' = 0

\* the variables of the lexer and its cursor
parse_vars == <<source, cursor, peeked, in_macro_args, in_macro_body, paren_depth,
                last_token_type, pc, token_type, expression_stack, builder, emitted,
                idle_reads>>

\* main: without sources it prints the usage and returns; with sources it
\* calls compile_source_files
CliMain ==
    /\ cli.pc = "main"
    /\ cli' = IF Len(cli.files) = 0
              THEN [cli EXCEPT !.pc = "exited", !.exit_code = 0]
              ELSE [cli EXCEPT !.pc = "parse_files"]
    /\ UNCHANGED <<parse_vars, cursor_call, overflow_checks, panic>>

\* parse_files, one turn of its loop: include_file opens the file and
\* parses it, or returns an Err that parse_files drops
CliIncludeFile ==
    /\ cli.pc = "parse_files"
    /\ cli.i <= Len(cli.files)
    /\ IF cli.files[cli.i].opens
       THEN /\ LexerStarts(cli.files[cli.i].text)
            /\ cli' = [cli EXCEPT !.pc = "parse"]
       ELSE /\ cli' = [cli EXCEPT !.i = @ + 1, !.unopened = @ + 1]
            /\ UNCHANGED parse_vars
    /\ UNCHANGED <<cursor_call, overflow_checks, panic>>

\* the loop of SourceFile::parse has read Eof or an Error
ParseBreaks ==
    pc = "next" /\ Len(emitted) > 0 /\ Last(emitted).type \in {"Eof", "Error"}

\* SourceFile::parse breaks out of its loop: an Error is printed to
\* standard output, and include_file returns Ok
CliParseBreak ==
    /\ cli.pc = "parse"
    /\ ParseBreaks
    /\ cli' = [cli EXCEPT !.pc = "parse_files", !.i = @ + 1,
                          !.errors = @ + (IF Last(emitted).type = "Error" THEN 1 ELSE 0)]
    /\ UNCHANGED <<parse_vars, cursor_call, overflow_checks, panic>>

\* a panic of the lexer ends the process: the message goes to standard
\* error and the exit code is 101
CliPanic ==
    /\ cli.pc = "parse"
    /\ pc = "panic"
    /\ cli' = [cli EXCEPT !.pc = "exited", !.exit_code = 101, !.stderr = @ + 1]
    /\ UNCHANGED <<parse_vars, cursor_call, overflow_checks, panic>>

\* after the last file compile_source_files links and returns; main writes
\* its diagnostic and exits with 1 on Err
CliLink ==
    /\ cli.pc = "parse_files"
    /\ cli.i > Len(cli.files)
    /\ cli' = IF compile_result = "Err"
              THEN [cli EXCEPT !.pc = "exited", !.exit_code = 1, !.stderr = @ + 1]
              ELSE [cli EXCEPT !.pc = "outputs"]
    /\ UNCHANGED <<parse_vars, cursor_call, overflow_checks, panic>>

\* main writes its outputs and returns
CliOutputs ==
    /\ cli.pc = "outputs"
    /\ cli' = [cli EXCEPT !.pc = "exited", !.exit_code = 0]
    /\ UNCHANGED <<parse_vars, cursor_call, overflow_checks, panic>>

NextCli ==
    \/ CliMain
    \/ CliIncludeFile
    \/ cli.pc = "parse" /\ ~ParseBreaks /\ Next
    \/ CliParseBreak
    \/ CliPanic
    \/ CliLink
    \/ CliOutputs

SpecCli == InitCli /\ [][NextCli]_vars

---------------------------------------------------------------------------
(* The cursor on its own: any sequence of SourceIter calls on a            *)
(* SourceString                                                            *)

\* the longest source text under the cursor
MaxText == 3

CursorBytes == {97, 32, 0}    \* "a", " ", the byte 0

CursorSources == UNION {[1..k -> CursorBytes] : k \in 0..MaxText}

\* the fields of the lexer, which the cursor calls leave alone
lexer_vars == <<peeked, in_macro_args, in_macro_body, paren_depth, last_token_type, pc,
                token_type, expression_stack, builder, emitted, idle_reads,
                overflow_checks, panic>>

InitCursor ==
    /\ source \in CursorSources
    /\ cursor = SourceString_new
    /\ cursor_call = NoCall
    /\ cli = NoCli
    /\ overflow_checks = "any"
    /\ peeked = NoToken
    /\ in_macro_args = FALSE
    /\ in_macro_body = FALSE
    /\ paren_depth = 0
    /\ last_token_type = "Begin"
    /\ pc = "next"
    /\ token_type = "None"
    /\ expression_stack = <<>>
    /\ builder = builder_new
    /\ emitted = <<>>
    /\ idle_reads = 0
    /\ panic = ""

\* source.next()
CursorNext ==
    /\ cursor' = source_next(source, cursor)
    /\ cursor_call' = [op |-> "next", byte |-> source_get(cursor')]
    /\ UNCHANGED <<source, cli, lexer_vars>>

\* source.peek()
CursorPeek ==
    /\ cursor' = source_peek(source, cursor).cur
    /\ cursor_call' = [op |-> "peek", byte |-> source_peek(source, cursor).byte]
    /\ UNCHANGED <<source, cli, lexer_vars>>

\* source.get()
CursorGet ==
    /\ cursor_call' = [op |-> "get", byte |-> source_get(cursor)]
    /\ UNCHANGED <<source, cursor, cli, lexer_vars>>

\* source.is_empty()
CursorIsEmpty ==
    /\ cursor_call' = [op |-> "is_empty", byte |-> IF source_is_empty(cursor) THEN 1 ELSE 0]
    /\ UNCHANGED <<source, cursor, cli, lexer_vars>>

NextCursor ==
    \/ CursorNext
    \/ CursorPeek
    \/ CursorGet
    \/ CursorIsEmpty

SpecCursor == InitCursor /\ [][NextCursor]_vars

---------------------------------------------------------------------------
(* Properties                                                              *)

\* the i-th token the classifier has returned is of one of the types
EmittedIs(i, types) == i \in 1..Len(emitted) /\ emitted[i].type \in types

\* the types of the tokens returned so far
EmittedTypes == [i \in 1..Len(emitted) |-> emitted[i].type]

\* a turn of the loop of BaseLexer::next is about to start from which the
\* scanner yields a token other than Eof and leaves the cursor as it was:
\* every later turn starts from the same cursor and yields the same token
ScanRepeats ==
    /\ Demand
    /\ peeked.type = "None"
    /\ LET r == next_raw_token(source, cursor, FALSE)
       IN  /\ r.tok.type \notin {"Eof", "Panic"}
           /\ r.cur = cursor

\* C1: reading the classified stream of a finite input without NUL bytes
\* reaches Eof after finitely many reads; for that, no turn of the scanner
\* may yield a token other than Eof without moving the cursor, since the turn
\* then repeats without end (inside one read when the token is Whitespace)
C1_ScanReachesEof == ~ScanRepeats

\* a Number, Name or String returned bare right after the Comma that follows
\* an Expression: an operand of an operand list that was not collapsed
BareOperandAfterComma(i) ==
    /\ EmittedIs(i, {"Number", "Name", "String"})
    /\ EmittedIs(i - 1, {"Comma"})
    /\ EmittedIs(i - 2, {"Expression"})

ScenarioLd == <<108, 100, 32, 97, 44, 32, 49, 32, 43, 32, 50, 32, 42, 32, 51>>

ScenarioDB == <<68, 66, 32, 36, 70, 70, 44, 32, 37, 49, 48, 49, 48, 49, 48, 49, 48, 44, 32, 45, 51, 46, 53>>

\* C2: every operand of a comma-separated operand list at depth 0 is returned
\* as one Expression token, the operands after a comma included; the right-hand
\* side of "ld a, 1 + 2 * 3" is the Expression
\* Binary(Plus, Number(1), Binary(Multiply, Number(2), Number(3)))
C2_OperandsAreExpressions ==
    /\ \A i \in 1..Len(emitted) : ~BareOperandAfterComma(i)
    /\ (source = ScenarioLd /\ Len(emitted) >= 4) =>
           emitted[4] = Tok("Expression",
                            EBinary("Plus", ENumber(NumInt(1)),
                                    EBinary("Multiply", ENumber(NumInt(2)), ENumber(NumInt(3)))))
    /\ (source = ScenarioDB /\ Len(emitted) >= 6) =>
           /\ emitted[4].type = "Expression"
           /\ emitted[6].type = "Expression"

\* the statement "ld a op1 b op2 c" has been read and its operand returned
PairReturned(pair) == source = ExprSource(pair) /\ Len(emitted) = 2

\* C3 as stated: for distinct binary operators op1 and op2, "a op1 b op2 c"
\* is built as Binary(op2, Binary(op1, a, b), c) if and only if
\* prec(op1) >= prec(op2), and as Binary(op1, a, Binary(op2, b, c)) otherwise
C3_GroupsLeftIffGeq ==
    Len(emitted) = 2 =>
        \A pair \in OperatorPairs :
            PairReturned(pair) =>
                emitted[2] = Tok("Expression",
                                 IF get_prec(pair[1].op) >= get_prec(pair[2].op)
                                 THEN LeftGrouped(pair[1], pair[2])
                                 ELSE RightGrouped(pair[1], pair[2]))

\* C3, amended: for distinct binary operators op1 and op2, "a op1 b op2 c"
\* is built as Binary(op2, Binary(op1, a, b), c) if and only if
\* prec(op1) > prec(op2), and as Binary(op1, a, Binary(op2, b, c)) otherwise
C3_GroupsLeftIffGreater ==
    Len(emitted) = 2 =>
        \A pair \in OperatorPairs :
            PairReturned(pair) =>
                emitted[2] = Tok("Expression",
                                 IF get_prec(pair[1].op) > get_prec(pair[2].op)
                                 THEN LeftGrouped(pair[1], pair[2])
                                 ELSE RightGrouped(pair[1], pair[2]))

\* two distinct operators of one precedence have been built, to the right
C3_EqualPrecedenceBuilt ==
    /\ Len(emitted) = 2
    /\ \E pair \in OperatorPairs :
         /\ get_prec(pair[1].op) = get_prec(pair[2].op)
         /\ PairReturned(pair)
         /\ emitted[2] = Tok("Expression", RightGrouped(pair[1], pair[2]))

\* C4: operators of equal precedence associate right-to-left: two of them,
\* the same operator twice included, build Binary(op1, a, Binary(op2, b, c)),
\* and a longer chain of them nests fully to the right
C4_EqualPrecedenceNestsRight ==
    Len(emitted) = 2 =>
        \A ch \in OperatorChains :
            source = ExprSource(ch) =>
                emitted[2] = Tok("Expression", RightNested(ch, 1))

\* a chain of three or more operators of one precedence has been built
C4_LongChainBuilt ==
    /\ Len(emitted) = 2
    /\ \E ch \in OperatorChains :
         /\ Len(ch) >= 3
         /\ source = ExprSource(ch)
         /\ emitted[2] = Tok("Expression", RightNested(ch, 1))

\* the panics of Expression::new and consume_operator on their stacks: the
\* two final assertions, and unwrap of the top or the pop of an empty stack
StackPanics == {
    "assertion failed: operators.len() == 0",
    "assertion failed: values.len() == 1",
    "called Option::unwrap() on a None value"
}

\* C5: on every buffer the classifier hands to it, the builder finishes with
\* an empty operator stack and one value: its final assertions never fail and
\* it never pops or reads the top of an empty stack
C5_BuilderStacksSound == ~(pc = "panic" /\ panic \in StackPanics)

\* the node is or contains an Invalid node
RECURSIVE HasInvalid(_)
HasInvalid(e) ==
    CASE e.kind = "Invalid" -> TRUE
      [] e.kind = "Unary"   -> HasInvalid(e.child)
      [] e.kind = "Binary"  -> HasInvalid(e.left) \/ HasInvalid(e.right)
      [] e.kind = "Call"    -> \E i \in 1..Len(e.args) : HasInvalid(e.args[i])
      [] OTHER              -> FALSE

StackHasInvalid(values) == \E i \in 1..Len(values) : HasInvalid(values[i])

\* C6: the Invalid("Invalid unary operator") that a drain with one operand
\* pushes is embedded in the returned AST: from the step that pushes it, the
\* node stays on the value stack, inside whatever is built over it, until the
\* build fails or returns an Expression that contains it
C6_InvalidStaysEmbedded ==
    [][(pc = "build" /\ StackHasInvalid(builder.values)) =>
           \/ pc' = "panic"
           \/ pc' = "build" /\ StackHasInvalid(builder'.values)
           \/ /\ pc' = "next"
              /\ Last(emitted').type = "Expression"
              /\ HasInvalid(Last(emitted').val)]_vars

\* the parentheses of the text from byte i on are balanced on every line
RECURSIVE paren_balanced(_, _, _)
paren_balanced(bytes, i, depth) ==
    IF i > Len(bytes) THEN depth = 0
    ELSE IF is_newline(bytes[i]) THEN depth = 0 /\ paren_balanced(bytes, i + 1, 0)
    ELSE IF bytes[i] = 40 THEN paren_balanced(bytes, i + 1, depth + 1)
    ELSE IF bytes[i] = 41 THEN depth > 0 /\ paren_balanced(bytes, i + 1, depth - 1)
    ELSE paren_balanced(bytes, i + 1, depth)

\* C7: on well-formed input, parentheses balanced on every line, paren_depth
\* never drops below 0: the expression loop never counts an RParen while
\* paren_depth is 0
C7_DepthNeverBelowZero ==
    ~(/\ pc = "expr_loop"
      /\ token_type = "RParen"
      /\ paren_depth = 0
      /\ paren_balanced(source, 1, 0))

\* C8: a MacroArg that the scanner yields while in_macro_args and
\* in_macro_body are both false is not passed on, neither returned as a
\* token of its own nor collected into an expression buffer
C8_NoMacroArgOutsideMacro ==
    (~in_macro_args /\ ~in_macro_body) =>
        /\ pc = "next" /\ Len(emitted) > 0 => Last(emitted).type # "MacroArg"
        /\ pc \in {"expr_loop", "expr_peek", "build"} =>
               \A i \in 1..Len(expression_stack) : expression_stack[i].type # "MacroArg"

\* C9: in a macro body, a MacroArg operand that follows an Instruction or
\* Directive starts an expression run and is returned as an Expression, never
\* as a bare MacroArg token
C9_MacroArgOperandCollapses ==
    ~(/\ in_macro_body
      /\ ~in_macro_args
      /\ pc = "next"
      /\ EmittedIs(Len(emitted), {"MacroArg"})
      /\ EmittedIs(Len(emitted) - 1, {"Instruction", "Directive"}))

ScenarioMacro == <<77, 65, 67, 82, 79, 32, 102, 111, 111, 40, 64, 97, 44, 32, 64, 98, 41, 10, 32, 32, 97, 100, 100, 32, 64, 97, 44, 32, 64, 98, 10, 69, 78, 68, 77, 65, 67, 82, 79>>

\* C10: between the Macro(name) token and the RParen that closes its
\* parameter list no Expression token is returned; the header
\* "MACRO foo(@a, @b)" yields Macro, LParen, MacroArg, Comma, MacroArg, RParen
C10_NoExpressionInMacroArgs ==
    /\ \A i \in 1..Len(emitted) : \A j \in (i + 1)..Len(emitted) :
           (emitted[i].type = "Macro" /\ emitted[j].type = "Expression") =>
               \E k \in (i + 1)..(j - 1) : emitted[k].type = "RParen"
    /\ (source = ScenarioMacro /\ Len(emitted) >= 6) =>
           SubSeq(EmittedTypes, 1, 6) =
               <<"Macro", "LParen", "MacroArg", "Comma", "MacroArg", "RParen">>

\* a parameter list has forwarded two tokens that start an expression run
\* anywhere else, and has been closed
C10_ArgsForwardedBare ==
    \E i \in 1..Len(emitted) :
        /\ emitted[i].type = "Macro"
        /\ i + 3 <= Len(emitted)
        /\ is_expression(emitted[i + 1].type, emitted[i + 2].type, 0)
        /\ emitted[i + 3].type = "RParen"

\* the i-th token returned is the Error with the message
ErrorAt(i, msg) == EmittedIs(i, {"Error"}) /\ emitted[i].val = <<msg>>

\* C11: a MACRO keyword followed by a Name returns Macro(name) and sets
\* in_macro_args when it was false; when in_macro_args is already true, or
\* when the token after MACRO is not a Name, an Error is returned and
\* in_macro_args and in_macro_body stay as they were
C11_MacroDefArm ==
    [][(pc = "macro_def" /\ pc' = "next") =>
           /\ Len(emitted') = Len(emitted) + 1
           /\ in_macro_body' = in_macro_body
           /\ IF peeked.type = "Name" /\ ~in_macro_args
              THEN Last(emitted') = Tok("Macro", peeked.val) /\ in_macro_args'
              ELSE Last(emitted').type = "Error" /\ in_macro_args' = in_macro_args]_vars

\* a header was opened, a MACRO with a name was rejected inside it, and a
\* MACRO without a name was rejected
C11_AllThreeOutcomes ==
    \E i \in 1..Len(emitted) : \E j \in 1..Len(emitted) : \E k \in 1..Len(emitted) :
        /\ i < j
        /\ emitted[i].type = "Macro"
        /\ ErrorAt(j, "Already inside a MACRO arguments signature")
        /\ ErrorAt(k, "Expected name after MARCO directive")
        /\ in_macro_args

\* the i-th token returned is the RParen that closes a macro header: the
\* first RParen returned after a Macro token
HeaderClose(i) ==
    /\ EmittedIs(i, {"RParen"})
    /\ \E m \in 1..(i - 1) :
         /\ emitted[m].type = "Macro"
         /\ \A k \in (m + 1)..(i - 1) : emitted[k].type # "RParen"

\* a step of Lexer::next that returns a token
Returns == Len(emitted') = Len(emitted) + 1

\* C12: a MacroEnd is returned only for an ENDMACRO read while in_macro_body
\* is true, and returning it clears in_macro_body; an ENDMACRO read while
\* in_macro_body is false gives an Error and leaves in_macro_args,
\* in_macro_body and paren_depth as they were; so every MacroEnd returned has
\* before it the closing RParen of a macro header with no MacroEnd in between
C12_MacroEndArm ==
    /\ [][(Returns /\ Last(emitted').type = "MacroEnd") =>
              /\ pc = "next" /\ peeked.type = "MacroEnd"
              /\ in_macro_body /\ ~in_macro_body'
              /\ in_macro_args' = in_macro_args]_vars
    /\ [][(Returns /\ pc = "next" /\ peeked.type = "MacroEnd" /\ ~in_macro_body) =>
              /\ Last(emitted').type = "Error"
              /\ UNCHANGED <<in_macro_args, in_macro_body, paren_depth>>]_vars
    /\ [](\A j \in 1..Len(emitted) :
              emitted[j].type = "MacroEnd" =>
                  \E i \in 1..(j - 1) :
                      /\ HeaderClose(i)
                      /\ \A k \in (i + 1)..(j - 1) : emitted[k].type # "MacroEnd")

\* a macro was closed by its ENDMACRO and a second ENDMACRO was rejected
C12_EndThenRejected ==
    \E i \in 1..Len(emitted) : \E j \in 1..Len(emitted) : \E k \in 1..Len(emitted) :
        /\ i < j /\ j < k
        /\ HeaderClose(i)
        /\ emitted[j].type = "MacroEnd"
        /\ ErrorAt(k, "Unexpected MARCO_END directive outside of macro")

ScenarioOffsetPos == <<64, 43, 52>>

ScenarioOffsetNeg == <<64, 45, 50>>

AllDecimal(bytes) == Len(bytes) >= 1 /\ \A i \in 1..Len(bytes) : is_decimal(bytes[i])

\* the value of the first n digits of a run of decimal digits
RECURSIVE DecimalValue(_, _)
DecimalValue(bytes, n) ==
    IF n = 0 THEN 0 ELSE 10 * DecimalValue(bytes, n - 1) + (bytes[n] - 48)

\* C14: a decimal literal of 1 to 8 digits gives a Number token; the length
\* Error is given only when a ninth digit arrives
C14_EightDigitsAllowed ==
    (AllDecimal(source) /\ Len(emitted) >= 1) =>
        IF Len(source) <= 8
        THEN emitted[1] = Tok("Number", NumInt(DecimalValue(source, Len(source))))
        ELSE emitted[1] =
                 Tok("Error", <<"Decimal literal exceeds maximum length of 8 digits">>)

\* the classifier has returned an Eof
EofReturned == \E i \in 1..Len(emitted) : emitted[i].type = "Eof"

\* C15: Eof is terminal: once an Eof has been returned every further read
\* returns Eof, and in_macro_args, in_macro_body and paren_depth change no more
C15_EofIsTerminal ==
    /\ [](\A i \in 1..Len(emitted) : \A j \in i..Len(emitted) :
              emitted[i].type = "Eof" => emitted[j].type = "Eof")
    /\ [][EofReturned =>
              /\ UNCHANGED <<in_macro_args, in_macro_body, paren_depth>>
              /\ pc' # "panic"]_vars

\* a read after the first Eof has returned Eof again, inside an open macro
\* argument list
C15_EofReadAgain ==
    /\ Len(emitted) >= 3
    /\ emitted[Len(emitted) - 1].type = "Eof"
    /\ emitted[Len(emitted)].type = "Eof"
    /\ in_macro_args

\* C16: peek changes no cursor state, the current byte, the read position
\* and the exhausted flag are after it as before it, and the advance that
\* follows a peek returns the byte the peek reported
C16_PeekChangesNothing ==
    /\ [][cursor_call'.op = "peek" => cursor' = cursor]_vars
    /\ [][(cursor_call.op = "peek" /\ cursor_call'.op = "next") =>
              cursor_call'.byte = cursor_call.byte]_vars

\* C17: in every state of the cursor, after any sequence of next, peek, get
\* and is_empty calls, empty = true implies that the current byte is 0
C17_EmptyImpliesZero == source_is_empty(cursor) => source_get(cursor) = 0

\* the tokens of the scanner that the classifier never passes on
RawOnly == {"Whitespace", "Comment", "PositiveOffset", "NegativeOffset", "MacroDef"}

\* C18: the classified stream never holds a Whitespace or Comment token, nor
\* a PositiveOffset, NegativeOffset or MacroDef, neither as a token of its
\* own nor inside a buffer handed to the expression builder
C18_NoRawOnlyTokens ==
    /\ \A i \in 1..Len(emitted) : emitted[i].type \notin RawOnly
    /\ \A i \in 1..Len(expression_stack) : expression_stack[i].type \notin RawOnly

ScenarioComment == <<108, 100, 32, 97, 32, 59, 32, 120, 10, 64, 43, 49, 32, 77, 65, 67, 82, 79, 32, 102>>

\* a text with whitespace, a comment, an offset sign and MACRO has been
\* read to its end
C18_RawOnlyTokensRead ==
    /\ source = ScenarioComment
    /\ EmittedTypes = <<"Instruction", "Expression", "Newline", "Offset", "Macro", "Eof">>

\* the end of the string literal that opens a text: the place of the first
\* quote equal to the opening one that no backslash escapes, or "open" when
\* the text ends before one, "dangling" when it ends on a backslash
RECURSIVE LiteralEnd(_, _)
LiteralEnd(s, i) ==
    IF i > Len(s) THEN "open"
    ELSE IF s[i] = s[1] THEN "closed"
    ELSE IF s[i] # 92 THEN LiteralEnd(s, i + 1)
    ELSE IF i = Len(s) THEN "dangling"
    ELSE IF s[i + 1] \in DOMAIN Escapes THEN LiteralEnd(s, i + 2)
    ELSE "unknown"

StringRead == source \in StringLiterals /\ Len(emitted) >= 2

\* C19 as stated: a text that opens a string literal gives a String token
\* only when a quote equal to the opening one closes it, and when the text
\* ends before such a quote the first token is
\* Error("Unclosed string literal") and the second is Eof
C19_UnclosedStringIsReported ==
    StringRead =>
        /\ emitted[1].type = "String" => LiteralEnd(source, 2) = "closed"
        /\ LiteralEnd(source, 2) \in {"open", "dangling"} =>
               ErrorAt(1, "Unclosed string literal") /\ emitted[2].type = "Eof"

\* C19: a text that opens a string literal gives a String token only when
\* a quote equal to the opening one closes it; when the text ends before
\* such a quote, and before any unknown escape, the first token is
\* Error("Unclosed string literal") and the second is Eof, except that a
\* text ending on a backslash gives the unknown-escape Error for byte 0 and
\* then Eof
C19_UnclosedUnlessDangling ==
    StringRead =>
        /\ emitted[1].type = "String" => LiteralEnd(source, 2) = "closed"
        /\ LiteralEnd(source, 2) = "open" =>
               ErrorAt(1, "Unclosed string literal") /\ emitted[2].type = "Eof"
        /\ LiteralEnd(source, 2) = "dangling" =>
               /\ EmittedIs(1, {"Error"})
               /\ emitted[1].val = <<"Unkown character escape sequence \"", 0, "\" in string literal">>
               /\ emitted[2].type = "Eof"

\* a literal opened by a double quote and followed by a single quote only
\* has been read to the end of the text
C19_MismatchedQuoteUnclosed ==
    /\ source = <<34, 97, 39>>
    /\ ErrorAt(1, "Unclosed string literal")
    /\ EmittedIs(2, {"Eof"})

\* C20: a token that the classifier takes after an offset sign or after
\* MACRO, other than Eof (which the scanner returns again), is in the token
\* returned by that read: fused into an Offset or Macro token, or returned
\* itself; it is never taken and left out of the classified stream
C20_NoTokenDiscarded ==
    [][(/\ pc \in {"offset_pos", "offset_neg", "macro_def"}
        /\ peeked.type \notin {"None", "Eof"}
        /\ peeked' = NoToken
        /\ Len(emitted') = Len(emitted) + 1) =>
           \/ Last(emitted').type \in {"Offset", "Macro"}
           \/ Last(emitted').type = peeked.type /\ Last(emitted') = peeked]_vars

\* C21: for every call f(e1, ..., en) with n >= 0 arguments, each a number,
\* a bare name, a sum or a call, the builder returns Call(f, [e1, ..., en])
\* with the arguments in source order, and does not panic
C21_CallHasItsArguments ==
    \A args \in ArgumentLists :
        source = CallSource(args) =>
            /\ pc # "panic"
            /\ Len(emitted) >= 2 => emitted[2] = Tok("Expression", CallTree(args))

\* the node is, or contains, a Unary or Binary node whose operator is one of
\* the sentinels Paren and Call
RECURSIVE HasSentinel(_)
HasSentinel(e) ==
    CASE e.kind = "Unary"   -> e.op \in {"Paren", "Call"} \/ HasSentinel(e.child)
      [] e.kind = "Binary"  -> \/ e.op \in {"Paren", "Call"}
                               \/ HasSentinel(e.left)
                               \/ HasSentinel(e.right)
      [] e.kind = "Call"    -> \E i \in 1..Len(e.args) : HasSentinel(e.args[i])
      [] OTHER              -> FALSE

\* C22: no Unary or Binary node carries Paren or Call as its operator,
\* neither in an Expression the builder has returned nor in a node on its
\* value stack
C22_SentinelsNeverInTree ==
    /\ \A i \in 1..Len(emitted) :
           emitted[i].type = "Expression" => ~HasSentinel(emitted[i].val)
    /\ \A i \in 1..Len(builder.values) : ~HasSentinel(builder.values[i])

\* a call whose argument is a sum has been built: both sentinels were on
\* the operator stack while the Plus was drained
C22_CallOverSumBuilt ==
    \E args \in ArgumentLists :
        /\ Len(args) = 1
        /\ args[1].tree.kind = "Binary"
        /\ source = CallSource(args)
        /\ EmittedIs(2, {"Expression"})
        /\ emitted[2].val = CallTree(args)

\* the assembly has failed: a source file could not be opened, or the
\* lexing of a source has reported an Error token
AssemblyFailed == cli.unopened > 0 \/ cli.errors > 0

\* C23: the process exits with code 0 only when the assembly succeeded, and
\* when it failed the process exits with a non-zero code after one
\* diagnostic line
C23_ExitCodeTellsFailure ==
    cli.pc = "exited" =>
        /\ cli.exit_code = 0 => ~AssemblyFailed
        /\ AssemblyFailed => cli.exit_code # 0 /\ cli.stderr = 1

\* the builder handles a binary operator token: an Operator that is not in
\* unary position is consumed by this step
PushesBinary ==
    /\ pc = "build"
    /\ ~builder.draining
    /\ builder.i <= Len(expression_stack)
    /\ expression_stack[builder.i].type = "Operator"
    /\ ~builder.valid_unary_position
    /\ pc' = "build"
    /\ builder'.i = builder.i + 1

\* C24: when a binary operator token is handled, every operator above the
\* nearest Paren with a strictly greater precedence is drained before the
\* push, so that right after the push the operator directly below the pushed
\* one has a precedence less than or equal to its own
C24_DrainsAllGreater ==
    [][PushesBinary =>
           LET ops == builder'.operators
               n   == Len(ops)
           IN  /\ n >= 1
               /\ ops[n] = expression_stack[builder.i].val
               /\ n >= 2 => get_prec(ops[n - 1]) <= get_prec(ops[n])]_vars

\* the classifier takes, as the first token of a read at the very start of
\* the input or of a line, a token that can open an operand
ReadsAtLineStart ==
    /\ pc = "next"
    /\ last_token_type \in {"Begin", "Newline"}
    /\ peeked.type \in {"LParen", "Name", "String", "Number"}
    /\ peeked' = NoToken

Commas(stack) == {i \in 1..Len(stack) : stack[i].type = "Comma"}

RulesOneToSeven(last, next, depth) ==
    IF depth = 0 /\ (last = "Comma" \/ next = "Comma") THEN FALSE
    ELSE IF last = "LParen"
    THEN next \in {"Name", "LocalLabelRef", "Number", "String", "Operator", "LParen",
                   "RParen", "MacroArg"}
    ELSE IF last = "RParen" THEN next \in {"RParen", "Operator"}
    ELSE IF last = "Operator"
    THEN next \in {"LParen", "Number", "String", "LocalLabelRef", "Name", "MacroArg"}
    ELSE IF last \in {"Number", "String", "LocalLabelRef", "Name", "MacroArg"}
    THEN \/ next \in {"RParen", "Operator"}
         \/ last \in {"Name", "MacroArg"} /\ next = "LParen"
         \/ next = "Comma" /\ depth > 0
    ELSE IF last = "Comma" THEN next \in {"LParen", "Name", "String", "Number", "MacroArg"}
    ELSE IF last \in {"Directive", "Instruction"}
    THEN next \in {"LParen", "Name", "String", "Number", "MacroArg"}
    ELSE FALSE

\* is_expression and the rules agree on every last type other than Begin
\* and Newline, every next type and every depth
RelationIsRules ==
    \A last \in TokenTypes \ {"Begin", "Newline"} : \A next \in TokenTypes :
        \A depth \in DepthValues :
            is_expression(last, next, depth) = RulesOneToSeven(last, next, depth)

\* the default arm of Lexer::next tests the first token of a read
TestsFirstToken ==
    /\ pc = "next"
    /\ ~in_macro_args
    /\ last_token_type \notin {"Begin", "Newline"}
    /\ peeked.type \notin {"None", "PositiveOffset", "NegativeOffset", "MacroArg",
                            "MacroDef", "MacroEnd"}
    /\ peeked' = NoToken

\* C27: for every last type other than Begin and Newline, every next type
\* and every depth, is_expression equals rules 1 to 7 with the first matching
\* rule winning and is false for every pair no rule lists; and every test
\* the classifier makes, on the first token of a read and on each token it
\* peeks, opens or continues a run exactly when the rules say so
C27_RelationIsRulesOneToSeven ==
    /\ []RelationIsRules
    /\ [][TestsFirstToken =>
              (pc' = "expr_loop" <=>
                   RulesOneToSeven(last_token_type, peeked.type, paren_depth))]_vars
    /\ [][(pc = "expr_peek" /\ peeked.type # "None") =>
              (pc' = "expr_loop" <=>
                   RulesOneToSeven(last_token_type, peeked.type, paren_depth))]_vars

\* a call with two arguments has been built: its Comma was read at depth 1
\* and taken into the run
C27_CommaInsideCallTaken ==
    \E args \in ArgumentLists :
        /\ Len(args) = 2
        /\ source = CallSource(args)
        /\ EmittedIs(2, {"Expression"})
        /\ emitted[2].val = CallTree(args)

\* the default arm of Lexer::next handles a token while in_macro_args is
\* true
ForwardsInMacroArgs ==
    /\ pc = "next"
    /\ in_macro_args
    /\ peeked.type \notin {"None", "PositiveOffset", "NegativeOffset", "MacroArg",
                            "MacroDef", "MacroEnd"}
    /\ peeked' = NoToken

\* C28: while in_macro_args is true, the step that reads an RParen sets
\* in_macro_args to false and in_macro_body to true and returns the RParen
\* unchanged; any other token the default arm handles while in_macro_args is
\* true is returned unchanged and leaves both flags as they were
C28_RParenClosesMacroArgs ==
    [][ForwardsInMacroArgs =>
           /\ emitted' = Append(emitted, peeked)
           /\ IF peeked.type = "RParen"
              THEN ~in_macro_args' /\ in_macro_body'
              ELSE UNCHANGED <<in_macro_args, in_macro_body>>]_vars

\* the header of a macro has just been closed: the RParen after the Comma
\* and the arguments is the last token returned, and the body is open
C28_HeaderJustClosed ==
    /\ source = ScenarioMacro
    /\ Len(emitted) = 6
    /\ EmittedIs(4, {"Comma"})
    /\ EmittedIs(6, {"RParen"})
    /\ ~in_macro_args
    /\ in_macro_body

\* the builder handles a minus token that stands, in its buffer, directly
\* after a token of one of the types
MinusAfter(types) ==
    /\ pc = "build"
    /\ ~builder.draining
    /\ builder.i \in 2..Len(expression_stack)
    /\ expression_stack[builder.i] = Tok("Operator", "Minus")
    /\ expression_stack[builder.i - 1].type \in types
    /\ pc' = "build"

\* the builder pops the operator off its stack and pushes a node for it
PopsOperator(op) ==
    /\ pc = "build"
    /\ pc' = "build"
    /\ Len(builder.operators) > 0
    /\ Last(builder.operators) = op
    /\ builder'.operators = Pop(builder.operators)

NameA == EName(<<97>>)

\* buffers with a minus in each position, and the tree of each
MinusBuffers == {
    [tokens |-> <<Tok("Operator", "Minus"), Tok("Name", <<97>>)>>,              \* -a
     tree |-> EUnary("UnaryMinus", NameA)],
    [tokens |-> <<Tok("Name", <<97>>), Tok("Operator", "Multiply"),             \* a*-a
                  Tok("Operator", "Minus"), Tok("Name", <<97>>)>>,
     tree |-> EBinary("Multiply", NameA, EUnary("UnaryMinus", NameA))],
    [tokens |-> <<Tok("Name", <<97>>), Tok("Operator", "Minus"),                \* a--a
                  Tok("Operator", "Minus"), Tok("Name", <<97>>)>>,
     tree |-> EBinary("Minus", NameA, EUnary("UnaryMinus", NameA))],
    [tokens |-> <<Tok("Name", <<97>>), Tok("Operator", "Minus"),                \* a-a
                  Tok("Name", <<97>>)>>,
     tree |-> EBinary("Minus", NameA, NameA)],
    [tokens |-> <<Tok("LParen", NoVal), Tok("Name", <<97>>), Tok("RParen", NoVal),  \* (a)-a
                  Tok("Operator", "Minus"), Tok("Name", <<97>>)>>,
     tree |-> EBinary("Minus", NameA, NameA)],
    [tokens |-> <<Tok("Operator", "Minus"), Tok("Name", <<97>>),                \* -a-a
                  Tok("Operator", "Minus"), Tok("Name", <<97>>)>>,
     tree |-> EBinary("Minus", EUnary("UnaryMinus", NameA), NameA)]
}

\* C29: in the builder a minus directly after an LParen or another operator
\* is pushed as UnaryMinus, and a minus directly after an operand or an
\* RParen is pushed as Minus; the node built for a UnaryMinus is
\* Unary(UnaryMinus, operand) over the one operand on top of the value
\* stack, and the node built for a Minus with its two operands on the value
\* stack is Binary(Minus, left, right)
C29_MinusByPosition ==
    /\ [][MinusAfter({"LParen", "Operator"}) =>
              Last(builder'.operators) = "UnaryMinus"]_vars
    /\ [][MinusAfter({"Number", "String", "Name", "RParen"}) =>
              Last(builder'.operators) = "Minus"]_vars
    /\ [][PopsOperator("UnaryMinus") =>
              /\ Len(builder.values) >= 1
              /\ builder'.values =
                     Append(Pop(builder.values), EUnary("UnaryMinus", Last(builder.values)))]_vars
    /\ [][(PopsOperator("Minus") /\ Len(builder.values) >= 2) =>
              builder'.values =
                  Append(Pop(Pop(builder.values)),
                         EBinary("Minus", builder.values[Len(builder.values) - 1],
                                 Last(builder.values)))]_vars
    /\ [][\A buffer \in MinusBuffers :
              (expression_stack = Wrapped(buffer.tokens) /\ pc = "build" /\ pc' # "build") =>
                  /\ pc' = "next"
                  /\ Len(emitted') > 0
                  /\ Last(emitted') = Tok("Expression", buffer.tree)]_vars

\* the buffer ( a - - a ) is built: the first minus is binary and the second
\* one, after an operator, is unary
C29_BothMinusBuilt ==
    /\ pc = "next"
    /\ Len(emitted) = 1
    /\ emitted[1] = Tok("Expression", EBinary("Minus", NameA, EUnary("UnaryMinus", NameA)))

\* the index of the last byte of the longest run of name bytes that starts
\* at index i of the text
RECURSIVE NameEnd(_, _)
NameEnd(text, i) ==
    IF i < Len(text) /\ is_name_part(text[i + 1]) THEN NameEnd(text, i + 1) ELSE i

\* the cursor stands on index k of the source, or past its end
CursorAt(c, k) ==
    IF k <= Len(source)
    THEN c.bytes = k /\ source_get(c) = source[k]
    ELSE c.bytes = Len(source) /\ source_get(c) = 0 /\ source_is_empty(c)

\* one turn of the raw lexer reads the token that starts at a name byte
ScansName ==
    /\ cursor' # cursor
    /\ cursor.bytes \in 1..Len(source)
    /\ is_name_start(source_get(cursor))

\* C30: the name accumulated at the cursor is classified in the order
\* instruction, directive, MACRO, ENDMACRO, label definition, plain name: a
\* name of the instruction or directive set (or MACRO, ENDMACRO) gives its
\* keyword token whatever follows, and a colon after it is left unconsumed;
\* any other name followed by a colon gives GlobalLabelDef and the cursor
\* passes the colon; any other name gives Name
C30_NameClassifiedInOrder ==
    [][ScansName =>
          LET end == NameEnd(source, cursor.bytes)
              name == SubSeq(source, cursor.bytes, end)
              colon == end < Len(source) /\ source[end + 1] = 58
          IN  IF name \in Instructions
              THEN peeked' = Tok("Instruction", name) /\ CursorAt(cursor', end + 1)
              ELSE IF name \in Directives
              THEN peeked' = Tok("Directive", name) /\ CursorAt(cursor', end + 1)
              ELSE IF name = <<77, 65, 67, 82, 79>>
              THEN peeked' = Tok("MacroDef", NoVal) /\ CursorAt(cursor', end + 1)
              ELSE IF name = <<69, 78, 68, 77, 65, 67, 82, 79>>
              THEN peeked' = Tok("MacroEnd", NoVal) /\ CursorAt(cursor', end + 1)
              ELSE IF colon
              THEN peeked' = Tok("GlobalLabelDef", name) /\ CursorAt(cursor', end + 2)
              ELSE peeked' = Tok("Name", name) /\ CursorAt(cursor', end + 1)]_vars

\* the text ld: has been read up to the colon: the token is Instruction(ld)
\* and the cursor stands on the colon
C30_KeywordBeforeColon ==
    /\ source = <<108, 100, 58>>
    /\ peeked = Tok("Instruction", <<108, 100>>)
    /\ source_get(cursor) = 58
    /\ cursor.bytes = 3

\* the arm of the sigil returns an Offset
OffsetFrom(arm) ==
    /\ pc = arm
    /\ Len(emitted') = Len(emitted) + 1
    /\ Last(emitted').type = "Offset"

\* C31: an Offset produced from @+ carries a value >= 0 and an Offset
\* produced from @- carries a value <= 0, whatever token follows the sigil
C31_SignFixedBySigil ==
    [][/\ OffsetFrom("offset_pos") => Last(emitted').val >= 0
       /\ OffsetFrom("offset_neg") => Last(emitted').val <= 0]_vars

\* the digits of a literal of NumberSources, underscores not counted
DigitCount(text) == Cardinality({i \in 1..Len(text) : text[i] = 49})

\* the most digits of a literal: 4 after "$", 8 otherwise
DigitLimit(text) == IF text[1] = 36 THEN 4 ELSE 8

\* C32: a numeric literal with more digits than its maximum (8 for decimal
\* and binary, 4 for hexadecimal) yields an Error token, wherever
\* underscores stand between or after its digits
C32_TooLongIsError ==
    (/\ source \in NumberSources
     /\ DigitCount(source) > DigitLimit(source)
     /\ Len(emitted) >= 1) => emitted[1].type = "Error"

\* one turn of the raw lexer is taken and its token is not Eof
ScansToken ==
    /\ Demand
    /\ peeked.type = "None"
    /\ next_raw_token(source, cursor, FALSE).tok.type # "Eof"

\* C33: every turn of the raw lexer that returns a token other than Eof
\* (Whitespace, Comment and Error included) moves the cursor on by at
\* least one byte
C33_ScanAdvances ==
    [][ScansToken => cursor_moved(cursor, cursor')]_vars

\* the token types Expression::new has an arm for
BuilderHandles == {"Number", "String", "Name", "Operator", "LParen", "RParen", "Comma"}

\* C34: every token of a buffer collected for the expression builder is of
\* a type the builder has an arm for, and the builder never enters its
\* unreachable branch
C34_BuilderHandlesEveryToken ==
    /\ \A i \in 1..Len(expression_stack) : to_type(expression_stack[i]) \in BuilderHandles
    /\ panic # "internal error: entered unreachable code"

\* C35: the first token of every collected expression run, the one placed
\* right after the synthetic LParen, is never an Operator or an RParen
C35_RunStartsWithOperand ==
    Len(expression_stack) >= 2 =>
        to_type(expression_stack[2]) \notin {"Operator", "RParen"}

\* the tokens of the type among the tokens the run has collected, the
\* synthetic LParen not counted
CountType(stack, type) ==
    Cardinality({i \in 2..Len(stack) : to_type(stack[i]) = type})

ExpressionReturned ==
    /\ pc = "next"
    /\ Len(emitted) > 0
    /\ Last(emitted).type = "Expression"

\* C37: the classified stream never holds two adjacent Expression tokens:
\* after an Expression is returned last_token_type is Expression, and the
\* token read next does not start an expression run
C37_NoAdjacentExpressions ==
    /\ [](\A i \in 1..(Len(emitted) - 1) :
              ~(emitted[i].type = "Expression" /\ emitted[i + 1].type = "Expression"))
    /\ [](ExpressionReturned => last_token_type = "Expression")
    /\ [][ExpressionReturned => pc' # "expr_loop"]_vars

\* in ld 1a the Expression of the number is followed by the bare name
C37_BareTokenAfterExpression ==
    /\ source = <<108, 100, 32, 49, 97>>
    /\ Len(emitted) >= 3
    /\ emitted[2].type = "Expression"
    /\ emitted[3].type = "Name"

\* the token types that close a statement or stand on their own
NeverInExpression == {
    "Newline", "Eof", "Error", "Instruction", "Directive", "GlobalLabelDef",
    "LocalLabelDef", "Offset", "PositiveOffset", "NegativeOffset", "Macro",
    "MacroDef", "MacroEnd", "LBrace", "RBrace"
}

\* is_expression refuses each of these types as the next token, after
\* every token type and at every depth
RefusesClosers ==
    \A last \in TokenTypes, next \in NeverInExpression, depth \in DepthValues :
        ~is_expression(last, next, depth)

\* C38: no expression buffer holds a Newline, Eof, Error, Instruction,
\* Directive, label definition, offset, macro or brace token, and
\* is_expression refuses each of them as the next token after every token
\* type and at every paren_depth, so no run goes on past a line break or
\* the end of the input
C38_RunStaysInStatement ==
    /\ \A i \in 1..Len(expression_stack) :
           to_type(expression_stack[i]) \notin NeverInExpression
    /\ RefusesClosers

\* a run with an open parenthesis has met the end of its line: the run is
\* closed and handed to the builder, the Newline stays out of it
C38_OpenRunEndsAtNewline ==
    /\ pc = "build"
    /\ paren_depth > 0
    /\ peeked.type = "Newline"

=============================================================================
